---- MODULE Spec2Model ----
(***************************************************************************)
(* Voice matching and disambiguation of YGORipperUI (src/oldIteration.py). *)
(*                                                                         *)
(* Threads of the program and how they appear here:                        *)
(*   - the Tk main thread: runs the callbacks queued with root.after(0,..) *)
(*     and the UI commands (buttons), one at a time;                       *)
(*   - voice_recognition_loop threads, one per start_voice_listening call; *)
(*   - dialog_voice_listener threads, one per option dialog.               *)
(* Background threads interleave with the main thread at the statements    *)
(* that read or write the shared fields.                                   *)
(*                                                                         *)
(* Texts are sequences of one-character strings so that lower(), strip(),  *)
(* substring tests and the regular expressions are computed, not assumed.  *)
(* Scores and confidences are integers in thousandths of a percent.        *)
(* Results of the external fuzz library are tabulated for the vocabulary.  *)
(*                                                                         *)
(* The variable call holds one call of a function that is examined on     *)
(* its own (SpecUnique, SpecCatalog, SpecRanking); it is NoCall while the  *)
(* program runs (Spec, SpecTimeouts).  SpecTimeouts follows one option     *)
(* dialog through all the listen attempts of its listener.  SpecRanking    *)
(* runs find_and_present_card_options on catalogs with tied confidences,   *)
(* repeated printings and more than eight printings of a card.             *)
(*                                                                         *)
(* Outside the model:                                                      *)
(*   - voice_status_locked and the 2000 ms timers that reset it.  They     *)
(*     only delay the next listen attempt, and a model without time lets   *)
(*     a timer fire at once;                                               *)
(*   - the statuses that report progress or success ("Listening...",       *)
(*     "Heard: ...", "Waiting for selection...", "Added: ...",             *)
(*     "Auto-confirmed: ...", "Selection cancelled").  voice_status_var is *)
(*     written, never read; the statuses that report a failed recognition  *)
(*     (no match, invalid selection, re-prompt) are modelled;              *)
(*   - end_pack_session: a behaviour covers one pack session up to its end;*)
(*   - the art-variant phrases of process_voice_input: no text of the      *)
(*     vocabulary holds one.  The rarity extraction is switched on, as it  *)
(*     is when the program starts.                                         *)
(***************************************************************************)
EXTENDS Integers, Sequences, FiniteSets, TLC

(***************************************************************************)
(* Bounds of the model                                                     *)
(***************************************************************************)
\* live voice_recognition_loop threads at any time
MaxLoops == 2
\* utterances the recognizer returns in one behaviour
MaxHeard == 2
\* listen attempts of one dialog listener that end with nothing heard
MaxSilence == 1

(***************************************************************************)
(* Program constants                                                       *)
(***************************************************************************)
\* confidences are kept in thousandths of a percent
Scale == 1000
MinTotalScore == 50
MaxVariants == 8
CapExactRarity == 95
CapOther == 85
MinNameScore == 40
DefaultThreshold == 85
max_listen_attempts == 20

None == <<"None">>

(***************************************************************************)
(* Texts                                                                   *)
(***************************************************************************)
T_blank == <<" ">>
T_0 == <<"0">>
T_5 == <<"5">>
T_Option2 == <<"O","p","t","i","o","n"," ","2"," ">>
T_option_2 == <<"o","p","t","i","o","n"," ","2">>
T_cancel == <<"c","a","n","c","e","l">>
T_dragon == <<"d","r","a","g","o","n">>
T_blue_eyes == <<"b","l","u","e"," ","e","y","e","s">>
T_blue_eyes_ghost_rare == <<"b","l","u","e"," ","e","y","e","s"," ","g","h","o","s","t"," ","r","a","r","e">>
T_ghost_rare == <<"g","h","o","s","t"," ","r","a","r","e">>
T_ultra_rare == <<"u","l","t","r","a"," ","r","a","r","e">>
R_UltraRare == <<"U","l","t","r","a"," ","R","a","r","e">>
R_GhostRare == <<"G","h","o","s","t"," ","R","a","r","e">>
R_SecretRare == <<"S","e","c","r","e","t"," ","R","a","r","e">>

\* what the speech service may return for one listen attempt
RecognizedTexts == {T_dragon, T_blue_eyes_ghost_rare, T_Option2, T_5, T_0, T_cancel, T_blank}

Upper == <<"A","B","C","D","E","F","G","H","I","J","K","L","M","N","O","P","Q","R","S","T","U","V","W","X","Y","Z">>
LowerLetters == <<"a","b","c","d","e","f","g","h","i","j","k","l","m","n","o","p","q","r","s","t","u","v","w","x","y","z">>
Digits == <<"0","1","2","3","4","5","6","7","8","9">>

LowerChar(c) ==
  IF \E i \in 1..26 : Upper[i] = c
  THEN LowerLetters[CHOOSE i \in 1..26 : Upper[i] = c]
  ELSE c

\* str.lower()
Lower(s) == [i \in 1..Len(s) |-> LowerChar(s[i])]

IsSpace(c) == c = " "

IsDigit(c) == \E i \in 1..10 : Digits[i] = c

DigitVal(c) == (CHOOSE i \in 1..10 : Digits[i] = c) - 1

RECURSIVE LStrip(_)
LStrip(s) == IF s # <<>> /\ IsSpace(Head(s)) THEN LStrip(Tail(s)) ELSE s

RECURSIVE RStrip(_)
RStrip(s) ==
  IF s # <<>> /\ IsSpace(s[Len(s)]) THEN RStrip(SubSeq(s, 1, Len(s) - 1)) ELSE s

\* str.strip()
Strip(s) == RStrip(LStrip(s))

\* p occurs in s starting at position i
ContainsAt(s, p, i) ==
  /\ i >= 1
  /\ i + Len(p) - 1 <= Len(s)
  /\ \A k \in 1..Len(p) : s[i + k - 1] = p[k]

\* Python's  p in s
Contains(s, p) == \E i \in 1..(Len(s) + 1) : ContainsAt(s, p, i)

\* int() of the maximal run of digits that starts at position i
RECURSIVE DigitsFrom(_, _, _)
DigitsFrom(s, i, acc) ==
  IF i <= Len(s) /\ IsDigit(s[i])
  THEN DigitsFrom(s, i + 1, acc * 10 + DigitVal(s[i]))
  ELSE acc

NoNumber == [found |-> FALSE, value |-> 0]

Number(value) == [found |-> TRUE, value |-> value]

\* the first of two regular-expression matches that found a number
OrElse(a, b) == IF a.found THEN a ELSE b

AllDigits(t) == t # <<>> /\ \A i \in 1..Len(t) : IsDigit(t[i])

\* r'^\s*(\d+)\s*$'
WholeNumber(text) ==
  IF AllDigits(Strip(text)) THEN Number(DigitsFrom(Strip(text), 1, 0)) ELSE NoNumber

\* first position after i that is not white space
RECURSIVE SkipSpaces(_, _)
SkipSpaces(s, i) == IF i <= Len(s) /\ IsSpace(s[i]) THEN SkipSpaces(s, i + 1) ELSE i

\* the positions where r'<kw>\s+(\d+)' matches
KeywordHits(text, kw) ==
  {i \in 1..Len(text) :
     /\ ContainsAt(text, kw, i)
     /\ i + Len(kw) <= Len(text)
     /\ IsSpace(text[i + Len(kw)])
     /\ SkipSpaces(text, i + Len(kw)) <= Len(text)
     /\ IsDigit(text[SkipSpaces(text, i + Len(kw))])}

Leftmost(hits) == CHOOSE h \in hits : \A g \in hits : h <= g

\* r'<kw>\s+(\d+)' under re.search: the leftmost occurrence that matches
KeywordNumber(text, kw) ==
  IF KeywordHits(text, kw) = {} THEN NoNumber
  ELSE Number(DigitsFrom(text, SkipSpaces(text, Leftmost(KeywordHits(text, kw)) + Len(kw)), 0))

number_patterns == << <<"o","p","t","i","o","n">>, <<"s","e","l","e","c","t">>,
                      <<"c","h","o","o","s","e">>, <<"n","u","m","b","e","r">> >>

\* the loop over number_patterns: the first pattern that matches decides
RECURSIVE FirstKeywordNumber(_, _)
FirstKeywordNumber(text, k) ==
  IF k > Len(number_patterns) THEN NoNumber
  ELSE OrElse(KeywordNumber(text, number_patterns[k]), FirstKeywordNumber(text, k + 1))

MatchNumber(text) == OrElse(WholeNumber(text), FirstKeywordNumber(text, 1))

reject_patterns == { <<"r","e","j","e","c","t">>, <<"c","a","n","c","e","l">>, <<"n","o">>,
                     <<"n","o","n","e">>, <<"s","k","i","p">> }

MatchesReject(text) == \E p \in reject_patterns : Contains(text, p)

(***************************************************************************)
(* Catalog (pack_session.set_cards) and the fuzz library on the vocabulary *)
(***************************************************************************)
N_BlueEyes == <<"B","l","u","e","-","E","y","e","s"," ","W","h","i","t","e"," ","D","r","a","g","o","n">>
N_DarkMagician == <<"D","a","r","k"," ","M","a","g","i","c","i","a","n">>
N_DarkMagicCurtain == <<"D","a","r","k"," ","M","a","g","i","c"," ","C","u","r","t","a","i","n">>
n_blue_eyes == <<"b","l","u","e","-","e","y","e","s"," ","w","h","i","t","e"," ","d","r","a","g","o","n">>
n_dark_magician == <<"d","a","r","k"," ","m","a","g","i","c","i","a","n">>

set_cards ==
  << [name |-> N_BlueEyes,
      card_sets |-> << [set_rarity |-> R_UltraRare, set_code |-> "LOB-001"],
                       [set_rarity |-> R_GhostRare, set_code |-> "GLD-001"] >>],
     [name |-> N_DarkMagician,
      card_sets |-> << [set_rarity |-> R_UltraRare, set_code |-> "LOB-005"] >>] >>

\* fuzz.token_set_ratio(a, b), percent
TokenSetRatio(a, b) ==
  CASE a = T_dragon /\ b = n_blue_eyes -> 100
    [] a = T_dragon /\ b = n_dark_magician -> 53
    [] a = T_blue_eyes /\ b = n_blue_eyes -> 100
    [] a = T_blue_eyes /\ b = n_dark_magician -> 9
    [] a = T_cancel /\ b = n_blue_eyes -> 21
    [] a = T_cancel /\ b = n_dark_magician -> 32
    [] a = T_option_2 /\ b = n_blue_eyes -> 20
    [] a = T_option_2 /\ b = n_dark_magician -> 29
    [] a = n_dark_magician /\ b = n_dark_magician -> 100
    [] a = n_dark_magician /\ b = n_blue_eyes -> 29
    [] a = n_dark_magician /\ b = Lower(N_DarkMagicCurtain) -> 65
    [] a = T_dragon /\ b = Lower(N_DarkMagicCurtain) -> 33
    [] a = T_blue_eyes /\ b = Lower(N_DarkMagicCurtain) -> 15
    [] a = T_cancel /\ b = Lower(N_DarkMagicCurtain) -> 33
    [] OTHER -> 0

\* the three method scores of calculate_name_confidence, percent:
\* best fuzzy match over the spelling variants, word coverage, compound form
NameMethods(input_name, card_name) ==
  CASE input_name = T_dragon /\ card_name = N_BlueEyes -> <<100, 100, 48>>
    [] input_name = T_dragon /\ card_name = N_DarkMagician -> <<53, 0, 56>>
    [] input_name = T_blue_eyes /\ card_name = N_BlueEyes -> <<100, 100, 59>>
    [] input_name = T_blue_eyes /\ card_name = N_DarkMagician -> <<9, 0, 0>>
    [] input_name = T_cancel /\ card_name = N_BlueEyes -> <<21, 0, 16>>
    [] input_name = T_cancel /\ card_name = N_DarkMagician -> <<32, 0, 33>>
    [] input_name = T_option_2 /\ card_name = N_BlueEyes -> <<20, 0, 23>>
    [] input_name = T_option_2 /\ card_name = N_DarkMagician -> <<29, 0, 21>>
    [] input_name = n_dark_magician /\ card_name = N_DarkMagician -> <<100, 100, 100>>
    [] input_name = n_dark_magician /\ card_name = N_BlueEyes -> <<39, 0, 32>>
    [] input_name = n_dark_magician /\ card_name = N_DarkMagicCurtain -> <<100, 100, 79>>
    [] input_name = T_dragon /\ card_name = N_DarkMagicCurtain -> <<36, 0, 45>>
    [] input_name = T_blue_eyes /\ card_name = N_DarkMagicCurtain -> <<15, 0, 8>>
    [] input_name = T_cancel /\ card_name = N_DarkMagicCurtain -> <<33, 0, 27>>
    [] OTHER -> <<0, 0, 0>>

\* fuzz.ratio on two rarity strings, percent
RarityRatio(a, b) ==
  CASE a = T_ghost_rare /\ b = T_ultra_rare -> 60
    [] a = T_ultra_rare /\ b = T_ghost_rare -> 60
    [] a = T_ultra_rare /\ b = Lower(R_SecretRare) -> 57
    [] a = T_ghost_rare /\ b = Lower(R_SecretRare) -> 67
    [] OTHER -> 0

Max(a, b) == IF a >= b THEN a ELSE b
Min(a, b) == IF a <= b THEN a ELSE b

IsWordChar(c) == IsDigit(c) \/ c = "_" \/ \E i \in 1..26 : LowerLetters[i] = c \/ Upper[i] = c

\* re.sub(r'[^\w\s]', '', s)
RECURSIVE Clean(_)
Clean(s) ==
  IF s = <<>> THEN <<>>
  ELSE IF IsWordChar(Head(s)) \/ IsSpace(Head(s)) THEN <<Head(s)>> \o Clean(Tail(s))
       ELSE Clean(Tail(s))

\* len(s.split())
WordCount(s) ==
  Cardinality({i \in 1..Len(s) : ~IsSpace(s[i]) /\ (i = 1 \/ IsSpace(s[i - 1]))})

\* length_ratio < 0.5: 0.8, < 0.7: 0.9, else 1.0 (in thousandths, without division)
LengthPenalty(lo, hi) ==
  IF 10 * lo < 5 * hi THEN 800 ELSE IF 10 * lo < 7 * hi THEN 900 ELSE 1000

\* the best method score, penalised by the difference in word counts
Penalised(raw_score, input_len, card_len) ==
  IF input_len > 0 /\ card_len > 0
  THEN raw_score * LengthPenalty(Min(input_len, card_len), Max(input_len, card_len))
  ELSE raw_score * Scale

BestMethod(m) == Max(m[1], Max(m[2], m[3]))

\* calculate_name_confidence, in thousandths of a percent
calculate_name_confidence(input_name, card_name) ==
  Penalised(BestMethod(NameMethods(input_name, card_name)),
            WordCount(Clean(Lower(input_name))), WordCount(Clean(Lower(card_name))))

\* a and b are the two rarities, lower case and stripped
RarityScoreNorm(a, b, fuzzy_floor) ==
  IF a = b THEN 100 * Scale
  ELSE IF Contains(b, a) \/ Contains(a, b) THEN 80 * Scale
  ELSE IF RarityRatio(a, b) >= fuzzy_floor THEN RarityRatio(a, b) * 700 ELSE 0

\* score of one printed rarity against the spoken one (exact / contained / fuzzy)
RarityScoreOf(input_rarity, set_rarity, fuzzy_floor) ==
  RarityScoreNorm(Strip(Lower(input_rarity)), Strip(Lower(set_rarity)), fuzzy_floor)

\* calculate_rarity_confidence: the best score over the card's printings; an
\* exact match ends the loop
RECURSIVE BestRarity(_, _, _, _)
BestRarityStep(input_rarity, card_sets, k, best, s) ==
  IF s = 100 * Scale THEN s ELSE BestRarity(input_rarity, card_sets, k + 1, Max(best, s))

BestRarity(input_rarity, card_sets, k, best) ==
  IF k > Len(card_sets) THEN best
  ELSE BestRarityStep(input_rarity, card_sets, k, best,
                      RarityScoreOf(input_rarity, card_sets[k].set_rarity, 70))

calculate_rarity_confidence(input_rarity, card) ==
  BestRarity(input_rarity, card.card_sets, 1, 0)

\* A faulty variant of the definition that follows it; nothing uses it.
\* The fault: a name score below 40 does not halve the total.
Blend_no_penalty(name_score, rarity_score, rarity) ==
  IF rarity # None THEN (3 * name_score + rarity_score) \div 4 ELSE name_score

\* 75% name + 25% rarity, halved for a weak name; the name alone without a hint
Blend(name_score, rarity_score, rarity) ==
  IF rarity # None
  THEN IF name_score < MinNameScore * Scale
       THEN ((3 * name_score + rarity_score) \div 4) \div 2
       ELSE (3 * name_score + rarity_score) \div 4
  ELSE name_score

get_card_rarity_display(card, specified_rarity) ==
  IF specified_rarity # None THEN specified_rarity
  ELSE IF card.card_sets # <<>> THEN card.card_sets[1].set_rarity
  ELSE <<"U","n","k","n","o","w","n">>

\* the entry of card_matches for one card
MatchRow(card, rarity, total_score) ==
  [card_data |-> card, confidence |-> total_score, name |-> card.name,
   rarity |-> get_card_rarity_display(card, rarity)]

TotalScore(card_name, rarity, card) ==
  Blend(calculate_name_confidence(card_name, card.name),
        IF rarity # None THEN calculate_rarity_confidence(rarity, card) ELSE 0,
        rarity)

FirstWithName(card_matches, name) ==
  CHOOSE j \in 1..Len(card_matches) :
    /\ card_matches[j].name = name
    /\ \A h \in 1..(j - 1) : card_matches[h].name # name

\* a row below 50 is dropped; of two rows of one name the higher one stays
AddMatch(card_matches, row) ==
  IF row.confidence < MinTotalScore * Scale THEN card_matches
  ELSE IF \A j \in 1..Len(card_matches) : card_matches[j].name # row.name
       THEN Append(card_matches, row)
       ELSE IF row.confidence > card_matches[FirstWithName(card_matches, row.name)].confidence
            THEN Append(SubSeq(card_matches, 1, FirstWithName(card_matches, row.name) - 1)
                          \o SubSeq(card_matches, FirstWithName(card_matches, row.name) + 1,
                                    Len(card_matches)), row)
            ELSE card_matches

\* first pass of find_and_present_card_options: one row per card name
RECURSIVE FirstPass(_, _, _, _)
FirstPass(card_name, rarity, k, card_matches) ==
  IF k > Len(set_cards) THEN card_matches
  ELSE FirstPass(card_name, rarity, k + 1,
                 AddMatch(card_matches,
                          MatchRow(set_cards[k], rarity,
                                   TotalScore(card_name, rarity, set_cards[k]))))

is_priority_match(card_name, card_name_to_find) ==
  \/ TokenSetRatio(Lower(card_name), Lower(card_name_to_find)) >= 90
  \/ Contains(Lower(card_name), Lower(card_name_to_find))
  \/ Contains(Lower(card_name_to_find), Lower(card_name))

\* A faulty variant of the definition that follows it; nothing uses it.
\* The fault: the cap of an exact match is applied to every variant.
Capped_one_cap(rarity, rarity_score, confidence) ==
  Min(CapExactRarity * Scale, confidence)

\* the caps: 95 for an exact match of the spoken rarity, 85 otherwise
Capped(rarity, rarity_score, confidence) ==
  IF rarity # None /\ rarity_score = 100 * Scale
  THEN Min(CapExactRarity * Scale, confidence)
  ELSE Min(CapOther * Scale, confidence)

VariantScore(rarity, name_score, rarity_score) ==
  Capped(rarity, rarity_score, Blend(name_score, rarity_score, rarity))

\* confidence of one printed variant
VariantConfidence(card_name, rarity, card, card_set) ==
  VariantScore(rarity, calculate_name_confidence(card_name, card.name),
               IF rarity # None THEN RarityScoreOf(rarity, card_set.set_rarity, 0) ELSE 0)

\* the pairs (card index, printing index) in the order the expansion loops visit them
RECURSIVE Printings(_, _, _)
Printings(name, k, j) ==
  IF k > Len(set_cards) THEN <<>>
  ELSE IF set_cards[k].name # name \/ j > Len(set_cards[k].card_sets)
       THEN Printings(name, k + 1, 1)
       ELSE << <<k, j>> >> \o Printings(name, k, j + 1)

\* A faulty variant of the definition that follows it; nothing uses it.
\* The fault: an option is labelled like a row of the first pass, with the
\* spoken rarity when there is one.
Variant_spoken_label(card_name, rarity, prio, card, card_set) ==
  [card_data |-> card,
   confidence |-> VariantConfidence(card_name, rarity, card, card_set),
   name |-> card.name,
   rarity |-> get_card_rarity_display(card, rarity),
   set_code |-> card_set.set_code,
   variant_key |-> <<card.name, card_set.set_rarity, card_set.set_code>>,
   is_priority |-> prio]

\* one option of the list: a printing of a matched card
Variant(card_name, rarity, prio, card, card_set) ==
  [card_data |-> card,
   confidence |-> VariantConfidence(card_name, rarity, card, card_set),
   name |-> card.name,
   rarity |-> card_set.set_rarity,
   set_code |-> card_set.set_code,
   variant_key |-> <<card.name, card_set.set_rarity, card_set.set_code>>,
   is_priority |-> prio]

\* acc.prio is exact_name_matches, acc.rest is all_variants; a variant_key is
\* looked up among all_variants only
AddVariant(acc, prio, variant) ==
  IF \E i \in 1..Len(acc.rest) : acc.rest[i].variant_key = variant.variant_key
  THEN acc
  ELSE IF prio THEN [acc EXCEPT !.prio = Append(@, variant)]
       ELSE [acc EXCEPT !.rest = Append(@, variant)]

\* variant expansion of one matched card
RECURSIVE ExpandOne(_, _, _, _, _, _)
ExpandOne(card_name, rarity, prio, ps, n, acc) ==
  IF n > Len(ps) THEN acc
  ELSE ExpandOne(card_name, rarity, prio, ps, n + 1,
                 AddVariant(acc, prio,
                            Variant(card_name, rarity, prio, set_cards[ps[n][1]],
                                    set_cards[ps[n][1]].card_sets[ps[n][2]])))

RECURSIVE Expand(_, _, _, _, _)
Expand(card_name, rarity, card_matches, m, acc) ==
  IF m > Len(card_matches) THEN acc
  ELSE Expand(card_name, rarity, card_matches, m + 1,
              ExpandOne(card_name, rarity,
                        is_priority_match(card_name, card_matches[m].name),
                        Printings(card_matches[m].name, 1, 1), 1, acc))

\* A faulty variant of the definition that follows it; nothing uses it.
\* The fault: the other variants are put before the priority matches.
Combine_rest_first(acc) == acc.rest \o acc.prio

\* final_variants = exact_name_matches + all_variants
Combine(acc) == acc.prio \o acc.rest

\* list.sort(key=-confidence): stable, highest first
RECURSIVE InsertSorted(_, _)
InsertSorted(sorted, v) ==
  IF sorted = <<>> THEN <<v>>
  ELSE IF Head(sorted).confidence >= v.confidence
       THEN <<Head(sorted)>> \o InsertSorted(Tail(sorted), v)
       ELSE <<v>> \o sorted

RECURSIVE SortFirst(_, _)
SortFirst(vs, k) ==
  IF k = 0 THEN <<>> ELSE InsertSorted(SortFirst(vs, k - 1), vs[k])

SortByConfidence(vs) == SortFirst(vs, Len(vs))

(***************************************************************************)
(* ensure_unique_confidence_scores.  The code works on binary floats: a    *)
(* value is found in used_scores only if it is the very float that round() *)
(* produced.  A working value is its decimal value v (thousandths) and a   *)
(* flag telling whether the float is exactly the float of that decimal.    *)
(***************************************************************************)
\* for the float of g/10: is  float - 0.1  exactly the float of (g-1)/10 ?
\* (IEEE-754 doubles, 10.0 < g/10 <= 100.0)
SubExact(g) ==
  IF g <= 160 THEN g % 5 # 3
  ELSE IF g <= 320 THEN g % 5 \in {0, 1, 3}
  ELSE IF g <= 640 THEN g % 5 # 3
  ELSE g % 5 \in {0, 1, 3} /\ g # 641

\* round(confidence, 1)
Round1(v) == IF v % 100 >= 50 THEN v - (v % 100) + 100 ELSE v - (v % 100)

\* the inner  while confidence in used_scores: confidence += 0.1
RECURSIVE BumpUp(_, _)
BumpUp(v, used) ==
  IF v \in used
  THEN IF v + 100 > 99 * Scale THEN v + 100 ELSE BumpUp(v + 100, used)
  ELSE v

\* the  while confidence in used_scores: confidence -= 0.1  loop for one variant
RECURSIVE UniqueValue(_, _, _, _)
UniqueValue(v, exact, original, used) ==
  IF ~(exact /\ v \in used) THEN Round1(v)
  ELSE IF v - 100 < 10 * Scale
       THEN Round1(BumpUp(original + 100, used))
       ELSE UniqueValue(v - 100, SubExact(v \div 100), original, used)

UniqueFor(original, used) == UniqueValue(original, original % 100 = 0, original, used)

RECURSIVE ensure_unique_confidence_scores(_, _, _)
SetUnique(variants, k, used, c) ==
  ensure_unique_confidence_scores([variants EXCEPT ![k].confidence = c], k + 1,
                                  used \cup {c})

ensure_unique_confidence_scores(variants, k, used) ==
  IF k > Len(variants) THEN variants
  ELSE SetUnique(variants, k, used, UniqueFor(variants[k].confidence, used))

\* final_variants[:8]
Top(variants) == SubSeq(variants, 1, Min(MaxVariants, Len(variants)))

\* expansion, sort, tie-breaking and the cut to the top 8
FinalVariants(card_name, rarity, card_matches) ==
  Top(ensure_unique_confidence_scores(
        SortByConfidence(Combine(Expand(card_name, rarity, card_matches, 1,
                                        [prio |-> <<>>, rest |-> <<>>]))),
        1, {}))

\* the ranked list of a query; empty when no card reaches 50
RankedList(card_name, rarity) ==
  FinalVariants(card_name, rarity, FirstPass(card_name, rarity, 1, <<>>))

(***************************************************************************)
(* process_voice_input: the hints are cut out of the text                  *)
(***************************************************************************)
\* re.sub(p, '', s): every non-overlapping occurrence, leftmost first
RECURSIVE RemoveAll(_, _)
RemoveAll(s, p) ==
  IF s = <<>> THEN <<>>
  ELSE IF ContainsAt(s, p, 1) THEN RemoveAll(SubSeq(s, Len(p) + 1, Len(s)), p)
       ELSE <<Head(s)>> \o RemoveAll(Tail(s), p)

\* re.sub(r'\s+', ' ', s).strip()
RECURSIVE Squeeze(_)
Squeeze(s) ==
  IF s = <<>> THEN <<>>
  ELSE IF IsSpace(Head(s)) /\ Tail(s) # <<>> /\ IsSpace(Head(Tail(s))) THEN Squeeze(Tail(s))
       ELSE <<Head(s)>> \o Squeeze(Tail(s))

\* the rarity patterns that are plain words, in the order of the list; the
\* other patterns of the list need "collector" or "rarity" in the text, or
\* "rare", which the plain pattern 'rare' has already taken
rarity_patterns ==
  << <<"q","u","a","r","t","e","r"," ","c","e","n","t","u","r","y"," ","s","e","c","r","e","t"," ","r","a","r","e">>,
     <<"q","u","a","r","t","e","r"," ","c","e","n","t","u","r","y"," ","s","e","c","r","e","t">>,
     <<"p","r","i","s","m","a","t","i","c"," ","s","e","c","r","e","t"," ","r","a","r","e">>,
     <<"p","r","i","s","m","a","t","i","c"," ","s","e","c","r","e","t">>,
     <<"s","t","a","r","l","i","g","h","t"," ","r","a","r","e">>,
     <<"g","h","o","s","t"," ","r","a","r","e">>,
     <<"s","e","c","r","e","t"," ","r","a","r","e">>,
     <<"u","l","t","r","a"," ","r","a","r","e">>,
     <<"s","u","p","e","r"," ","r","a","r","e">>,
     <<"r","a","r","e">>,
     <<"c","o","m","m","o","n">> >>

RECURSIVE FirstRarityPattern(_, _)
FirstRarityPattern(text, k) ==
  IF k > Len(rarity_patterns) THEN None
  ELSE IF Contains(text, rarity_patterns[k]) THEN rarity_patterns[k]
       ELSE FirstRarityPattern(text, k + 1)

\* the text without the rarity phrase, white space cleaned up
CutHint(voice_text, rarity) ==
  [card_name |-> Strip(Squeeze(IF rarity = None THEN voice_text
                                ELSE Strip(RemoveAll(voice_text, rarity)))),
   art_variant |-> None,
   rarity |-> rarity]

\* card name, art variant and rarity as process_voice_input hands them to the
\* matching
ParseVoiceInput(voice_text) == CutHint(voice_text, FirstRarityPattern(voice_text, 1))

(***************************************************************************)
(* State                                                                   *)
(***************************************************************************)
VARIABLES
  pack_session_active,         \* YGORipperUI.pack_session_active
  voice_listening,             \* YGORipperUI.voice_listening
  pending_voice_confirmation,  \* the PendingSelection: flag,
  pending_card_options,        \*   option list,
  pending_voice_data,          \*   hints
  options_round,               \* which call of show_voice_card_options stored the list
                               \* pending_card_options holds (0: the empty list)
  auto_confirm_var,            \* the auto-confirm check box
  auto_confirm_threshold_var,  \* the threshold spin box, percent
  cards,                       \* pack_session.cards
  loops,                       \* the voice_recognition_loop threads
  dialogs,                     \* the option dialogs, each with its dialog_voice_listener thread
  grab,                        \* the round of the dialog that holds the input grab (0: none)
  audio_lock,                  \* VoiceRecognizer.audio_lock: "free" or its holder
  queue,                       \* callbacks scheduled with root.after(0, ...), in order
  main,                        \* where the Tk main thread stands inside a selection handler
  voice_status_var,            \* the last failure status set
  heard,                       \* utterances recognized so far
  rounds,                      \* calls of show_voice_card_options so far
  call                         \* the call of a function that is studied on its own
                               \* (NoCall while the program runs)

psVars == <<pending_voice_confirmation, pending_card_options, pending_voice_data, options_round>>
cfgVars == <<auto_confirm_var, auto_confirm_threshold_var>>

vars == <<pack_session_active, voice_listening, pending_voice_confirmation,
          pending_card_options, pending_voice_data, options_round, auto_confirm_var,
          auto_confirm_threshold_var, cards, loops, dialogs, grab, audio_lock, queue,
          main, voice_status_var, heard, rounds, call>>

\* the values the operator gives the threshold spin box (70..95 in steps of 5)
Thresholds == {80, 85}

\* pending_voice_data = {}
NoData == [original_input |-> None, art_variant |-> None, rarity |-> None, set |-> FALSE]

\* a callback scheduled with root.after(0, ...): pc is the function it calls and
\* kind tells which lambda it is. n is no part of the lambda: it keeps the
\* number of pending options at the time the lambda was scheduled
Callback(k, text, opt, art, kind, n) ==
  [pc |-> k, text |-> text, opt |-> opt, art |-> art, kind |-> kind, n |-> n]

\* lambda: self.handle_voice_selection(voice_text), scheduled by process_voice_input
\* ("loop") or by a dialog_voice_listener ("dialog")
CbHvs(text, kind) == Callback("hvs", text, <<>>, None, kind, 0)

CbAdd(opt, art) == Callback("add", None, <<opt>>, art, "auto", 0)

CbStatus(kind, n) == Callback("status", None, <<>>, None, kind, n)

\* the N of AwaitingAnswer: the number of pending options, 0 when nothing is pending
Awaiting == IF pending_voice_confirmation THEN Len(pending_card_options) ELSE 0

\* a status text: its kind and the N of "Say 1-N" (0 where the text has none)
Status(kind, n) == [kind |-> kind, n |-> n]

NoLoop == [pc |-> "none", text |-> None, card_name |-> None, art_variant |-> None,
           rarity |-> None, variants |-> <<>>, round |-> 0]
LoopAt(pc) == [NoLoop EXCEPT !.pc = pc]

\* a dialog whose window is destroyed and whose listener has ended is gone
RECURSIVE Gc(_)
Gc(ds) ==
  IF ds = <<>> THEN <<>>
  ELSE IF ~Head(ds).open /\ Head(ds).pc = "done" THEN Gc(Tail(ds))
       ELSE <<Head(ds)>> \o Gc(Tail(ds))

\* a call of one function, made outside a run of the program: its arguments
\* (variants for ensure_unique_confidence_scores; catalog, card_name and rarity
\* for the ranking pass), how far it has come and what it has produced
NoCall == [fn |-> "none", pc |-> "none", variants |-> <<>>, catalog |-> <<>>,
           card_name |-> None, rarity |-> None, card_matches |-> <<>>, result |-> <<>>]

Init ==
  /\ call = NoCall
  /\ pack_session_active = FALSE
  /\ voice_listening = FALSE
  /\ pending_voice_confirmation = FALSE
  /\ pending_card_options = <<>>
  /\ pending_voice_data = NoData
  /\ options_round = 0
  /\ auto_confirm_var = FALSE
  /\ auto_confirm_threshold_var = DefaultThreshold
  /\ cards = <<>>
  /\ loops = [t \in 1..MaxLoops |-> NoLoop]
  /\ dialogs = <<>>
  /\ grab = 0
  /\ audio_lock = "free"
  /\ queue = <<>>
  /\ main = "idle"
  /\ voice_status_var = Status("ready", 0)
  /\ heard = 0
  /\ rounds = 0

(***************************************************************************)
(* add_card_to_session, called on the main thread                          *)
(***************************************************************************)
\* final_rarity = rarity or self.get_card_rarity_display(card_data, rarity)
FinalRarity(card_data, rarity) ==
  IF rarity # None /\ rarity # <<>> THEN rarity
  ELSE get_card_rarity_display(card_data, None)

\* the entry appended to pack_session.cards; round tells which selection round
\* committed it (0: the auto-confirm)
SessionCard(card_data, art_variant, rarity, round) ==
  [card_name |-> card_data.name,
   card_rarity |-> FinalRarity(card_data, rarity),
   art_variant |-> art_variant,
   card_sets |-> card_data.card_sets,
   round |-> round]

add_card_to_session(card_data, art_variant, rarity, round) ==
  cards' = Append(cards, SessionCard(card_data, art_variant, rarity, round))

(***************************************************************************)
(* The Tk main thread: it runs one callback or UI command at a time        *)
(***************************************************************************)
\* Faulty variants of the definitions that follow them, one plausible fault
\* each.  No action uses them: a property that is claimed to hold has to fail
\* when the definition is replaced by its variant.
\* The fault: the commit takes the spoken rarity hint, not the option's rarity.
SelectByNumber_spoken_rarity(m) ==
  IF 0 <= m.value - 1 /\ m.value - 1 < Len(pending_card_options)
  THEN /\ pending_voice_confirmation' = FALSE
       /\ pending_card_options' = <<>>
       /\ options_round' = 0
       /\ add_card_to_session(pending_card_options[m.value].card_data,
                              pending_voice_data.art_variant,
                              pending_voice_data.rarity, options_round)
       /\ queue' = Tail(queue)
       /\ main' = "hvs_clear"
       /\ UNCHANGED pending_voice_data
  ELSE /\ queue' = Append(Tail(queue), CbStatus("invalid", Awaiting))
       /\ UNCHANGED <<psVars, cards, main>>

\* handle_voice_selection when the text holds the number m.value
SelectByNumber(m) ==
  IF 0 <= m.value - 1 /\ m.value - 1 < Len(pending_card_options)
  THEN /\ pending_voice_confirmation' = FALSE
       /\ pending_card_options' = <<>>
       /\ options_round' = 0
       /\ add_card_to_session(pending_card_options[m.value].card_data,
                              pending_voice_data.art_variant,
                              pending_card_options[m.value].rarity, options_round)
       /\ queue' = Tail(queue)
       /\ main' = "hvs_clear"
       /\ UNCHANGED pending_voice_data
  ELSE /\ queue' = Append(Tail(queue), CbStatus("invalid", Awaiting))
       /\ UNCHANGED <<psVars, cards, main>>

\* The fault: every text without a number cancels the selection.
RejectOrPrompt_clears(voice_text) ==
  /\ pending_voice_confirmation' = FALSE
  /\ pending_card_options' = <<>>
  /\ options_round' = 0
  /\ pending_voice_data' = NoData
  /\ queue' = Tail(queue)
  /\ UNCHANGED <<cards, main>>

\* The fault: a cancel leaves the hints in place.
RejectOrPrompt_keeps_hints(voice_text) ==
  IF MatchesReject(voice_text)
  THEN /\ pending_voice_confirmation' = FALSE
       /\ pending_card_options' = <<>>
       /\ options_round' = 0
       /\ queue' = Tail(queue)
       /\ UNCHANGED <<pending_voice_data, cards, main>>
  ELSE /\ queue' = Append(Tail(queue), CbStatus("reprompt", Awaiting))
       /\ UNCHANGED <<psVars, cards, main>>

\* handle_voice_selection when the text holds no number
RejectOrPrompt(voice_text) ==
  IF MatchesReject(voice_text)
  THEN /\ pending_voice_confirmation' = FALSE
       /\ pending_card_options' = <<>>
       /\ options_round' = 0
       /\ pending_voice_data' = NoData
       /\ queue' = Tail(queue)
       /\ UNCHANGED <<cards, main>>
  ELSE /\ queue' = Append(Tail(queue), CbStatus("reprompt", Awaiting))
       /\ UNCHANGED <<psVars, cards, main>>

\* handle_voice_selection(voice_text), up to its return or up to the return
\* of add_card_to_session
handle_voice_selection ==
  /\ main = "idle"
  /\ queue # <<>>
  /\ Head(queue).pc = "hvs"
  /\ \E m \in {MatchNumber(Head(queue).text)} :
       IF m.found THEN SelectByNumber(m) ELSE RejectOrPrompt(Head(queue).text)
  /\ UNCHANGED <<call, pack_session_active, voice_listening, cfgVars, loops, dialogs, grab, audio_lock,
                 voice_status_var, heard, rounds>>

\* the last statement of a selection, after add_card_to_session has returned:
\* self.pending_voice_data = {}
ClearVoiceData ==
  /\ main \in {"hvs_clear", "sel_clear"}
  /\ pending_voice_data' = NoData
  /\ main' = "idle"
  /\ UNCHANGED <<call, pack_session_active, voice_listening, pending_voice_confirmation,
                 pending_card_options, options_round, cfgVars, cards, loops, dialogs, grab,
                 audio_lock, queue, voice_status_var, heard, rounds>>

\* add_card_on_main_thread, scheduled by the auto-confirm
add_card_on_main_thread ==
  /\ main = "idle"
  /\ queue # <<>>
  /\ Head(queue).pc = "add"
  /\ add_card_to_session(Head(queue).opt[1].card_data, Head(queue).art,
                         Head(queue).opt[1].rarity, 0)
  /\ queue' = Tail(queue)
  /\ UNCHANGED <<call, pack_session_active, voice_listening, psVars, cfgVars, loops, dialogs, grab,
                 audio_lock, main, voice_status_var, heard, rounds>>

\* lambda: self.voice_status_var.set(...); the two prompts of
\* handle_voice_selection format len(self.pending_card_options) when they run
SetStatus ==
  /\ main = "idle"
  /\ queue # <<>>
  /\ Head(queue).pc = "status"
  /\ voice_status_var' = Status(Head(queue).kind,
                                IF Head(queue).kind \in {"invalid", "reprompt"}
                                THEN Len(pending_card_options) ELSE 0)
  /\ queue' = Tail(queue)
  /\ UNCHANGED <<call, pack_session_active, voice_listening, psVars, cfgVars, cards, loops,
                 dialogs, grab, audio_lock, main, heard, rounds>>

\* select_option(index) of dialog d: a click on "Select Option index+1".  The
\* click reaches the dialog unless another dialog holds the grab (grab_set);
\* destroying the dialog releases its grab
select_option(d, index) ==
  /\ main = "idle"
  /\ dialogs[d].open
  /\ grab \in {0, dialogs[d].round}
  /\ 0 <= index /\ index < Len(dialogs[d].card_matches)
  /\ pending_voice_confirmation' = FALSE
  /\ pending_card_options' = <<>>
  /\ options_round' = 0
  /\ dialogs' = Gc([dialogs EXCEPT ![d].open = FALSE])
  /\ grab' = 0
  /\ add_card_to_session(dialogs[d].card_matches[index + 1].card_data,
                         dialogs[d].art_variant,
                         dialogs[d].card_matches[index + 1].rarity, dialogs[d].round)
  /\ main' = "sel_clear"
  /\ UNCHANGED <<call, pack_session_active, voice_listening, pending_voice_data, cfgVars, loops,
                 audio_lock, queue, voice_status_var, heard, rounds>>

\* cancel_selection of dialog d: the Cancel button or the window's close box
\* (WM_DELETE_WINDOW, which a grab does not hold back)
cancel_selection(d) ==
  /\ main = "idle"
  /\ dialogs[d].open
  /\ pending_voice_confirmation' = FALSE
  /\ pending_card_options' = <<>>
  /\ options_round' = 0
  /\ pending_voice_data' = NoData
  /\ dialogs' = Gc([dialogs EXCEPT ![d].open = FALSE])
  /\ grab' = IF grab = dialogs[d].round THEN 0 ELSE grab
  /\ UNCHANGED <<call, pack_session_active, voice_listening, cfgVars, cards, loops, audio_lock,
                 queue, main, voice_status_var, heard, rounds>>

\* The buttons and boxes of the main window take no input while a dialog holds
\* the grab.
\* start_voice_listening: a new voice_recognition_loop thread is started
start_voice_listening ==
  /\ main = "idle"
  /\ grab = 0
  /\ pack_session_active
  /\ ~voice_listening
  /\ \E t \in 1..MaxLoops :
       /\ loops[t].pc = "none"
       /\ \A u \in 1..(t - 1) : loops[u].pc # "none"
       /\ loops' = [loops EXCEPT ![t] = LoopAt("while")]
  /\ voice_listening' = TRUE
  /\ UNCHANGED <<call, pack_session_active, psVars, cfgVars, cards, dialogs, grab, audio_lock, queue,
                 main, voice_status_var, heard, rounds>>

\* The fault: stopping the listening also drops the pending selection.
stop_voice_listening_clears ==
  /\ main = "idle"
  /\ grab = 0
  /\ voice_listening
  /\ voice_listening' = FALSE
  /\ pending_voice_confirmation' = FALSE
  /\ pending_card_options' = <<>>
  /\ options_round' = 0
  /\ pending_voice_data' = NoData
  /\ UNCHANGED <<call, pack_session_active, cfgVars, cards, loops, dialogs, grab, audio_lock,
                 queue, main, voice_status_var, heard, rounds>>

stop_voice_listening ==
  /\ main = "idle"
  /\ grab = 0
  /\ voice_listening
  /\ voice_listening' = FALSE
  /\ UNCHANGED <<call, pack_session_active, psVars, cfgVars, cards, loops, dialogs, grab, audio_lock,
                 queue, main, voice_status_var, heard, rounds>>

\* the Start/Stop Listening button
toggle_voice_listening == stop_voice_listening \/ start_voice_listening

\* start_pack_session; no session had been saved before
start_pack_session ==
  /\ main = "idle"
  /\ grab = 0
  /\ ~pack_session_active
  /\ pack_session_active' = TRUE
  /\ UNCHANGED <<call, voice_listening, psVars, cfgVars, cards, loops, dialogs, grab, audio_lock, queue,
                 main, voice_status_var, heard, rounds>>

\* the operator ticks the auto-confirm box or changes the threshold
SetAutoConfirm ==
  /\ main = "idle"
  /\ grab = 0
  /\ \E b \in BOOLEAN, th \in Thresholds :
       /\ <<b, th>> # <<auto_confirm_var, auto_confirm_threshold_var>>
       /\ auto_confirm_var' = b
       /\ auto_confirm_threshold_var' = th
  /\ UNCHANGED <<call, pack_session_active, voice_listening, psVars, cards, loops, dialogs, grab,
                 audio_lock, queue, main, voice_status_var, heard, rounds>>

(***************************************************************************)
(* VoiceRecognizer.listen_once                                             *)
(***************************************************************************)
\* what listen_once returns for the recognized text raw: text.lower().strip()
Recognized(raw) == Strip(Lower(raw))

RecognizedSet == {Recognized(raw) : raw \in RecognizedTexts}

\* The fault: only None counts as nothing heard, an empty text is processed.
Nothing_none_only(voice_text) == voice_text = None

\* listen_once returned nothing to act on: None (a timeout, a recognition error,
\* the lock was busy) or an empty text
Nothing(voice_text) == voice_text = None \/ voice_text = <<>>

\* the outcomes of one listen attempt; at most MaxHeard non-empty texts are heard
ListenResults ==
  {x \in RecognizedSet \cup {None} : Nothing(x) \/ heard < MaxHeard}

(***************************************************************************)
(* voice_recognition_loop, thread t                                        *)
(***************************************************************************)
\* The fault: listen_once enters the microphone section without trying the lock.
LoopIterate_no_lock(t) ==
  /\ loops[t].pc = "while"
  /\ IF ~(voice_listening /\ pack_session_active)
     THEN /\ loops' = [loops EXCEPT ![t] = NoLoop]
          /\ UNCHANGED audio_lock
     ELSE IF pending_voice_confirmation
          THEN UNCHANGED <<loops, audio_lock>>
          ELSE /\ audio_lock' = <<"loop", t>>
               /\ loops' = [loops EXCEPT ![t] = LoopAt("listening")]
  /\ UNCHANGED <<call, pack_session_active, voice_listening, psVars, cfgVars, cards, dialogs, grab,
                 queue, main, voice_status_var, heard, rounds>>

\* the head of an iteration, up to the attempt to take the audio lock
LoopIterate(t) ==
  /\ loops[t].pc = "while"
  /\ IF ~(voice_listening /\ pack_session_active)
     THEN /\ loops' = [loops EXCEPT ![t] = NoLoop]
          /\ UNCHANGED audio_lock
     ELSE IF pending_voice_confirmation \/ audio_lock # "free"
          THEN UNCHANGED <<loops, audio_lock>>
          ELSE /\ audio_lock' = <<"loop", t>>
               /\ loops' = [loops EXCEPT ![t] = LoopAt("listening")]
  /\ UNCHANGED <<call, pack_session_active, voice_listening, psVars, cfgVars, cards, dialogs, grab,
                 queue, main, voice_status_var, heard, rounds>>

\* listen_once returns to the loop
LoopListenReturn(t) ==
  /\ loops[t].pc = "listening"
  /\ audio_lock' = "free"
  /\ \E voice_text \in ListenResults :
       IF Nothing(voice_text)
       THEN /\ loops' = [loops EXCEPT ![t] = LoopAt("while")]
            /\ UNCHANGED heard
       ELSE /\ heard' = heard + 1
            /\ loops' = [loops EXCEPT ![t] = [LoopAt("process") EXCEPT !.text = voice_text]]
  /\ UNCHANGED <<call, pack_session_active, voice_listening, psVars, cfgVars, cards, dialogs, grab,
                 queue, main, voice_status_var, rounds>>

\* The fault: the text is parsed as a query whether a selection is pending or not.
process_voice_input_unchecked(t) ==
  /\ loops[t].pc = "process"
  /\ \E hints \in {ParseVoiceInput(Strip(Lower(loops[t].text)))} :
       loops' = [loops EXCEPT ![t] =
                   [LoopAt("score") EXCEPT !.text = Strip(Lower(loops[t].text)),
                                           !.card_name = hints.card_name,
                                           !.art_variant = hints.art_variant,
                                           !.rarity = hints.rarity]]
  /\ UNCHANGED <<call, pack_session_active, voice_listening, psVars, cfgVars, cards, dialogs, grab,
                 audio_lock, queue, main, voice_status_var, heard, rounds>>

\* process_voice_input: an answer is handed to the main thread, a query is parsed
process_voice_input(t) ==
  /\ loops[t].pc = "process"
  /\ IF pending_voice_confirmation
     THEN /\ queue' = Append(queue, CbHvs(Strip(Lower(loops[t].text)), "loop"))
          /\ loops' = [loops EXCEPT ![t] = LoopAt("while")]
     ELSE /\ \E hints \in {ParseVoiceInput(Strip(Lower(loops[t].text)))} :
               loops' = [loops EXCEPT ![t] =
                           [LoopAt("score") EXCEPT !.text = Strip(Lower(loops[t].text)),
                                                   !.card_name = hints.card_name,
                                                   !.art_variant = hints.art_variant,
                                                   !.rarity = hints.rarity]]
          /\ UNCHANGED queue
  /\ UNCHANGED <<call, pack_session_active, voice_listening, psVars, cfgVars, cards, dialogs, grab,
                 audio_lock, main, voice_status_var, heard, rounds>>

\* the queries the vocabulary can produce, and the ranked list of each
Queries == {<<ParseVoiceInput(x).card_name, ParseVoiceInput(x).rarity>> : x \in RecognizedSet}

Ranked == [q \in Queries |-> RankedList(q[1], q[2])]

\* The fault: the confidence has to exceed the threshold.
AutoConfirmDecision_strict(t, final_variants) ==
  IF auto_confirm_var /\ final_variants[1].confidence > auto_confirm_threshold_var * Scale
  THEN /\ queue' = Append(queue, CbAdd(final_variants[1], loops[t].art_variant))
       /\ loops' = [loops EXCEPT ![t] = LoopAt("while")]
       /\ UNCHANGED rounds
  ELSE /\ rounds' = rounds + 1
       /\ loops' = [loops EXCEPT ![t].pc = "set_flag",
                                 ![t].variants = final_variants,
                                 ![t].round = rounds + 1]
       /\ UNCHANGED queue

\* The fault: the check box is not read.
AutoConfirmDecision_unconditional(t, final_variants) ==
  IF final_variants[1].confidence >= auto_confirm_threshold_var * Scale
  THEN /\ queue' = Append(queue, CbAdd(final_variants[1], loops[t].art_variant))
       /\ loops' = [loops EXCEPT ![t] = LoopAt("while")]
       /\ UNCHANGED rounds
  ELSE /\ rounds' = rounds + 1
       /\ loops' = [loops EXCEPT ![t].pc = "set_flag",
                                 ![t].variants = final_variants,
                                 ![t].round = rounds + 1]
       /\ UNCHANGED queue

\* the auto-confirm decision on a ranked list that is not empty
AutoConfirmDecision(t, final_variants) ==
  IF auto_confirm_var /\ final_variants[1].confidence >= auto_confirm_threshold_var * Scale
  THEN /\ queue' = Append(queue, CbAdd(final_variants[1], loops[t].art_variant))
       /\ loops' = [loops EXCEPT ![t] = LoopAt("while")]
       /\ UNCHANGED rounds
  ELSE /\ rounds' = rounds + 1
       /\ loops' = [loops EXCEPT ![t].pc = "set_flag",
                                 ![t].variants = final_variants,
                                 ![t].round = rounds + 1]
       /\ UNCHANGED queue

\* The fault: an empty ranked list is presented like any other.
find_and_present_card_options_presents_nothing(t) ==
  /\ loops[t].pc = "score"
  /\ \E final_variants \in {Ranked[<<loops[t].card_name, loops[t].rarity>>]} :
       /\ rounds' = rounds + 1
       /\ loops' = [loops EXCEPT ![t].pc = "set_flag",
                                 ![t].variants = final_variants,
                                 ![t].round = rounds + 1]
       /\ UNCHANGED queue
  /\ UNCHANGED <<call, pack_session_active, voice_listening, psVars, cfgVars, cards, dialogs, grab,
                 audio_lock, main, voice_status_var, heard>>

\* find_and_present_card_options up to the call of show_voice_card_options
find_and_present_card_options(t) ==
  /\ loops[t].pc = "score"
  /\ \E final_variants \in {Ranked[<<loops[t].card_name, loops[t].rarity>>]} :
       IF final_variants = <<>>
       THEN /\ queue' = Append(queue, CbStatus("nomatch", 0))
            /\ loops' = [loops EXCEPT ![t] = LoopAt("while")]
            /\ UNCHANGED rounds
       ELSE AutoConfirmDecision(t, final_variants)
  /\ UNCHANGED <<call, pack_session_active, voice_listening, psVars, cfgVars, cards, dialogs, grab,
                 audio_lock, main, voice_status_var, heard>>

\* show_voice_card_options: self.pending_voice_confirmation = True
SetPendingFlag(t) ==
  /\ loops[t].pc = "set_flag"
  /\ pending_voice_confirmation' = TRUE
  /\ loops' = [loops EXCEPT ![t].pc = "set_data"]
  /\ UNCHANGED <<call, pack_session_active, voice_listening, pending_card_options,
                 pending_voice_data, options_round, cfgVars, cards, dialogs, grab, audio_lock,
                 queue, main, voice_status_var, heard, rounds>>

\* show_voice_card_options: the option list and the hints are stored
SetPendingData(t) ==
  /\ loops[t].pc = "set_data"
  /\ pending_card_options' = loops[t].variants
  /\ options_round' = loops[t].round
  /\ pending_voice_data' = [original_input |-> loops[t].card_name,
                            art_variant |-> loops[t].art_variant,
                            rarity |-> loops[t].rarity, set |-> TRUE]
  /\ loops' = [loops EXCEPT ![t].pc = "dialog"]
  /\ UNCHANGED <<call, pack_session_active, voice_listening, pending_voice_confirmation, cfgVars,
                 cards, dialogs, grab, audio_lock, queue, main, voice_status_var, heard, rounds>>

\* show_voice_card_options: the dialog is built, takes the grab, and its voice
\* listener is started
OpenDialog(t) ==
  /\ loops[t].pc = "dialog"
  /\ dialogs' = Append(dialogs, [card_matches |-> loops[t].variants,
                                 art_variant |-> loops[t].art_variant,
                                 round |-> loops[t].round,
                                 open |-> TRUE, pc |-> "while", listen_count |-> 0])
  /\ grab' = loops[t].round
  /\ loops' = [loops EXCEPT ![t] = LoopAt("while")]
  /\ UNCHANGED <<call, pack_session_active, voice_listening, psVars, cfgVars, cards, audio_lock,
                 queue, main, voice_status_var, heard, rounds>>

\* show_voice_card_options: building the dialog raises, the except branch
\* clears the pending state
OpenDialogFails(t) ==
  /\ loops[t].pc = "dialog"
  /\ pending_voice_confirmation' = FALSE
  /\ pending_card_options' = <<>>
  /\ options_round' = 0
  /\ pending_voice_data' = NoData
  /\ loops' = [loops EXCEPT ![t] = LoopAt("while")]
  /\ UNCHANGED <<call, pack_session_active, voice_listening, cfgVars, cards, dialogs, grab, audio_lock,
                 queue, main, voice_status_var, heard, rounds>>

(***************************************************************************)
(* dialog_voice_listener of dialog d                                       *)
(***************************************************************************)
\* the loop condition and the attempt to take the audio lock; a busy lock
\* counts as one attempt
DialogListen(d) ==
  /\ dialogs[d].pc = "while"
  /\ IF ~(pending_voice_confirmation /\ dialogs[d].listen_count < max_listen_attempts)
     THEN /\ dialogs' = Gc([dialogs EXCEPT ![d].pc = "done"])
          /\ UNCHANGED audio_lock
     ELSE IF audio_lock # "free"
          THEN /\ dialogs[d].listen_count < MaxSilence
               /\ dialogs' = [dialogs EXCEPT ![d].listen_count = @ + 1]
               /\ UNCHANGED audio_lock
          ELSE /\ audio_lock' = <<"dialog", dialogs[d].round>>
               /\ dialogs' = [dialogs EXCEPT ![d].pc = "listening"]
  /\ UNCHANGED <<call, pack_session_active, voice_listening, psVars, cfgVars, cards, loops, grab,
                 queue, main, voice_status_var, heard, rounds>>

\* listen_once returns: one heard command is handed to the main thread and the
\* listener ends; nothing heard counts as one attempt
DialogListenReturn(d) ==
  /\ dialogs[d].pc = "listening"
  /\ audio_lock' = "free"
  /\ \E voice_text \in ListenResults :
       IF Nothing(voice_text)
       THEN /\ dialogs[d].listen_count < MaxSilence
            /\ dialogs' = [dialogs EXCEPT ![d].pc = "while", ![d].listen_count = @ + 1]
            /\ UNCHANGED <<queue, heard>>
       ELSE /\ queue' = Append(queue, CbHvs(voice_text, "dialog"))
            /\ heard' = heard + 1
            /\ dialogs' = Gc([dialogs EXCEPT ![d].pc = "done"])
  /\ UNCHANGED <<call, pack_session_active, voice_listening, psVars, cfgVars, cards, loops, grab,
                 main, voice_status_var, rounds>>

Next ==
  \/ handle_voice_selection
  \/ ClearVoiceData
  \/ add_card_on_main_thread
  \/ SetStatus
  \/ \E d \in 1..Len(dialogs) : \E index \in 0..(MaxVariants - 1) : select_option(d, index)
  \/ \E d \in 1..Len(dialogs) : cancel_selection(d)
  \/ toggle_voice_listening
  \/ start_pack_session
  \/ SetAutoConfirm
  \/ \E t \in 1..MaxLoops : LoopIterate(t)
  \/ \E t \in 1..MaxLoops : LoopListenReturn(t)
  \/ \E t \in 1..MaxLoops : process_voice_input(t)
  \/ \E t \in 1..MaxLoops : find_and_present_card_options(t)
  \/ \E t \in 1..MaxLoops : SetPendingFlag(t)
  \/ \E t \in 1..MaxLoops : SetPendingData(t)
  \/ \E t \in 1..MaxLoops : OpenDialog(t)
  \/ \E t \in 1..MaxLoops : OpenDialogFails(t)
  \/ \E d \in 1..Len(dialogs) : DialogListen(d)
  \/ \E d \in 1..Len(dialogs) : DialogListenReturn(d)

Spec == Init /\ [][Next]_vars

(***************************************************************************)
(* ensure_unique_confidence_scores on its own: it is called with a list    *)
(* sorted by confidence, highest first (4894-4897)                         *)
(***************************************************************************)
\* the longest list of a call
MaxList == 4

\* the confidences of the lists, in thousandths of a percent
Confidences == {85000, 84950, 80000, 79960, 10000}

\* the fields of the program are as they are after construction
ProgramAtInit ==
  /\ pack_session_active = FALSE
  /\ voice_listening = FALSE
  /\ pending_voice_confirmation = FALSE
  /\ pending_card_options = <<>>
  /\ pending_voice_data = NoData
  /\ options_round = 0
  /\ auto_confirm_var = FALSE
  /\ auto_confirm_threshold_var = DefaultThreshold
  /\ cards = <<>>
  /\ loops = [t \in 1..MaxLoops |-> NoLoop]
  /\ dialogs = <<>>
  /\ grab = 0
  /\ audio_lock = "free"
  /\ queue = <<>>
  /\ main = "idle"
  /\ voice_status_var = Status("ready", 0)
  /\ heard = 0
  /\ rounds = 0

progVars == <<pack_session_active, voice_listening, pending_voice_confirmation,
              pending_card_options, pending_voice_data, options_round, auto_confirm_var,
              auto_confirm_threshold_var, cards, loops, dialogs, grab, audio_lock, queue,
              main, voice_status_var, heard, rounds>>

\* the call is made with a list of variants sorted by confidence, highest
\* first; name tells the variants of a list apart
InitUnique ==
  /\ ProgramAtInit
  /\ \E cs \in UNION {{c \in [1..n -> Confidences] : \A i \in 1..(n - 1) : c[i] >= c[i + 1]} :
                        n \in 1..MaxList} :
       call = [NoCall EXCEPT !.fn = "ensure_unique_confidence_scores",
                             !.pc = "called",
                             !.variants = [i \in 1..Len(cs) |->
                                             [name |-> i, confidence |-> cs[i]]]]

\* the call runs: the list is rewritten in place
EnsureUnique ==
  /\ call.fn = "ensure_unique_confidence_scores"
  /\ call.pc = "called"
  /\ call' = [call EXCEPT !.pc = "returned",
                          !.result = ensure_unique_confidence_scores(call.variants, 1, {})]
  /\ UNCHANGED progVars

SpecUnique == InitUnique /\ [][EnsureUnique]_vars

(***************************************************************************)
(* A selection that waits for its answer while the listen attempts of its  *)
(* dialog time out: the attempts of dialog_voice_listener are followed up  *)
(* to max_listen_attempts                                                  *)
(***************************************************************************)
\* the state after "dragon" was heard with auto-confirm off: its three options
\* are pending, the dialog is on the screen and its listener has started
InitTimeouts ==
  /\ call = NoCall
  /\ pack_session_active = TRUE
  /\ voice_listening = TRUE
  /\ pending_voice_confirmation = TRUE
  /\ pending_card_options = Ranked[<<T_dragon, None>>]
  /\ pending_voice_data = [original_input |-> T_dragon, art_variant |-> None,
                           rarity |-> None, set |-> TRUE]
  /\ options_round = 1
  /\ auto_confirm_var = FALSE
  /\ auto_confirm_threshold_var = DefaultThreshold
  /\ cards = <<>>
  /\ loops = [t \in 1..MaxLoops |-> IF t = 1 THEN LoopAt("while") ELSE NoLoop]
  /\ dialogs = << [card_matches |-> Ranked[<<T_dragon, None>>], art_variant |-> None,
                   round |-> 1, open |-> TRUE, pc |-> "while", listen_count |-> 0] >>
  /\ grab = 1
  /\ audio_lock = "free"
  /\ queue = <<>>
  /\ main = "idle"
  /\ voice_status_var = Status("ready", 0)
  /\ heard = 1
  /\ rounds = 1

\* dialog_voice_listener: the loop condition and the attempt to take the audio
\* lock, every attempt counted as the code counts it
DialogAttempt(d) ==
  /\ dialogs[d].pc = "while"
  /\ IF ~(pending_voice_confirmation /\ dialogs[d].listen_count < max_listen_attempts)
     THEN /\ dialogs' = Gc([dialogs EXCEPT ![d].pc = "done"])
          /\ UNCHANGED audio_lock
     ELSE IF audio_lock # "free"
          THEN /\ dialogs' = [dialogs EXCEPT ![d].listen_count = @ + 1]
               /\ UNCHANGED audio_lock
          ELSE /\ audio_lock' = <<"dialog", dialogs[d].round>>
               /\ dialogs' = [dialogs EXCEPT ![d].pc = "listening"]
  /\ UNCHANGED <<call, pack_session_active, voice_listening, psVars, cfgVars, cards, loops, grab,
                 queue, main, voice_status_var, heard, rounds>>

\* listen_once returns None to the dialog listener: the attempt has timed out
DialogTimeout(d) ==
  /\ dialogs[d].pc = "listening"
  /\ audio_lock' = "free"
  /\ dialogs' = [dialogs EXCEPT ![d].pc = "while", ![d].listen_count = @ + 1]
  /\ UNCHANGED <<call, pack_session_active, voice_listening, psVars, cfgVars, cards, loops, grab,
                 queue, main, voice_status_var, heard, rounds>>

\* listen_once returns a text to the dialog listener
DialogHears(d) ==
  /\ dialogs[d].pc = "listening"
  /\ heard < MaxHeard
  /\ audio_lock' = "free"
  /\ \E voice_text \in {x \in RecognizedSet : ~Nothing(x)} :
       queue' = Append(queue, CbHvs(voice_text, "dialog"))
  /\ heard' = heard + 1
  /\ dialogs' = Gc([dialogs EXCEPT ![d].pc = "done"])
  /\ UNCHANGED <<call, pack_session_active, voice_listening, psVars, cfgVars, cards, loops, grab,
                 main, voice_status_var, rounds>>

NextTimeouts ==
  \/ \E d \in 1..Len(dialogs) : DialogAttempt(d)
  \/ \E d \in 1..Len(dialogs) : DialogTimeout(d)
  \/ \E d \in 1..Len(dialogs) : DialogHears(d)
  \/ handle_voice_selection
  \/ ClearVoiceData
  \/ SetStatus
  \/ \E d \in 1..Len(dialogs) : \E index \in 0..(MaxVariants - 1) : select_option(d, index)
  \/ \E d \in 1..Len(dialogs) : cancel_selection(d)

SpecTimeouts == InitTimeouts /\ [][NextTimeouts]_vars

(***************************************************************************)
(* The ranking pass of find_and_present_card_options over a catalog that   *)
(* may hold entries without 'name' or without 'card_sets'                  *)
(***************************************************************************)
\* card['name'] raises KeyError for an entry without the key
HasName(card) == "name" \in DOMAIN card

\* card.get('card_sets', [])
CardSetsOf(card) == IF "card_sets" \in DOMAIN card THEN card.card_sets ELSE <<>>

\* an entry with a name, its printings read with card.get('card_sets', [])
ReadCard(card) == [name |-> card.name, card_sets |-> CardSetsOf(card)]

\* the first-pass loop: an entry whose scoring raises is skipped (except ...:
\* continue), every other entry is scored like a card of set_cards
RECURSIVE FirstPassOver(_, _, _, _, _)
FirstPassOver(catalog, card_name, rarity, k, card_matches) ==
  IF k > Len(catalog) THEN card_matches
  ELSE IF ~HasName(catalog[k])
       THEN FirstPassOver(catalog, card_name, rarity, k + 1, card_matches)
       ELSE FirstPassOver(catalog, card_name, rarity, k + 1,
                          AddMatch(card_matches,
                                   MatchRow(ReadCard(catalog[k]), rarity,
                                            TotalScore(card_name, rarity,
                                                       ReadCard(catalog[k])))))

\* the pairs (entry, printing) of the cards of one name, in the order of the loops
RECURSIVE PrintingsOver(_, _, _, _)
PrintingsOver(catalog, name, k, j) ==
  IF k > Len(catalog) THEN <<>>
  ELSE IF catalog[k].name # name \/ j > Len(CardSetsOf(catalog[k]))
       THEN PrintingsOver(catalog, name, k + 1, 1)
       ELSE << <<k, j>> >> \o PrintingsOver(catalog, name, k, j + 1)

RECURSIVE ExpandOneOver(_, _, _, _, _, _, _)
ExpandOneOver(catalog, card_name, rarity, prio, ps, n, acc) ==
  IF n > Len(ps) THEN acc
  ELSE ExpandOneOver(catalog, card_name, rarity, prio, ps, n + 1,
                     AddVariant(acc, prio,
                                Variant(card_name, rarity, prio, ReadCard(catalog[ps[n][1]]),
                                        catalog[ps[n][1]].card_sets[ps[n][2]])))

\* the expansion over a catalog whose entries all have a name
RECURSIVE ExpandOver(_, _, _, _, _, _)
ExpandOver(catalog, card_name, rarity, card_matches, m, acc) ==
  IF m > Len(card_matches) THEN acc
  ELSE ExpandOver(catalog, card_name, rarity, card_matches, m + 1,
                  ExpandOneOver(catalog, card_name, rarity,
                                is_priority_match(card_name, card_matches[m].name),
                                PrintingsOver(catalog, card_matches[m].name, 1, 1), 1, acc))

\* expansion, sort, tie-breaking and the cut to the top 8
FinalVariantsOver(catalog, card_name, rarity, card_matches) ==
  Top(ensure_unique_confidence_scores(
        SortByConfidence(Combine(ExpandOver(catalog, card_name, rarity, card_matches, 1,
                                            [prio |-> <<>>, rest |-> <<>>]))),
        1, {}))

\* set_cards, and set_cards with one entry that lacks a field, as it may come
\* with the set data, at any place
Catalogs ==
  LET NoNameEntry == [card_sets |-> << [set_rarity |-> R_UltraRare, set_code |-> "LOB-070"] >>]
      NoSetsEntry == [name |-> N_BlueEyes]
  IN  {set_cards}
        \cup {SubSeq(set_cards, 1, p) \o <<e>> \o SubSeq(set_cards, p + 1, Len(set_cards)) :
                p \in 0..Len(set_cards), e \in {NoNameEntry, NoSetsEntry}}

\* the entries of a catalog that have every field
WellFormed(catalog) ==
  LET IsWellFormed(card) == "name" \in DOMAIN card /\ "card_sets" \in DOMAIN card
  IN  SelectSeq(catalog, IsWellFormed)

InitCatalog ==
  /\ ProgramAtInit
  /\ \E catalog \in Catalogs, q \in Queries :
       call = [NoCall EXCEPT !.fn = "find_and_present_card_options",
                             !.pc = "first_pass",
                             !.catalog = catalog,
                             !.card_name = q[1],
                             !.rarity = q[2]]

\* the first pass, up to the return for an empty card_matches
RankFirstPass ==
  /\ call.fn = "find_and_present_card_options"
  /\ call.pc = "first_pass"
  /\ \E card_matches \in {FirstPassOver(call.catalog, call.card_name, call.rarity, 1, <<>>)} :
       call' = [call EXCEPT !.card_matches = card_matches,
                            !.pc = IF card_matches = <<>> THEN "returned" ELSE "expansion"]
  /\ UNCHANGED progVars

\* the variant expansion, up to final_variants[:8] or to the exception that ends
\* the call.  The expansion loops compare card['name'] of every entry of the
\* catalog, outside any try: with a match to expand, an entry without 'name'
\* raises KeyError out of find_and_present_card_options
RankExpansion ==
  /\ call.fn = "find_and_present_card_options"
  /\ call.pc = "expansion"
  /\ IF call.card_matches # <<>> /\ \E k \in 1..Len(call.catalog) : ~HasName(call.catalog[k])
     THEN call' = [call EXCEPT !.pc = "raised"]
     ELSE call' = [call EXCEPT !.pc = "returned",
                               !.result = FinalVariantsOver(call.catalog, call.card_name,
                                                            call.rarity, call.card_matches)]
  /\ UNCHANGED progVars

NextCatalog == RankFirstPass \/ RankExpansion

SpecCatalog == InitCatalog /\ [][NextCatalog]_vars


(***************************************************************************)
(* The ranking pass and the auto-confirm decision of                       *)
(* find_and_present_card_options as a function of the catalog, the query   *)
(* and the two settings                                                    *)
(***************************************************************************)
\* catalogs of a set: printings that tie at a cap, a printing that is listed
\* twice, an entry that is listed twice, more than 8 printings
RankingCatalogs ==
  LET P(r, c) == [set_rarity |-> r, set_code |-> c]
      BlueEyes == set_cards[1]
      Curtain == [name |-> N_DarkMagicCurtain,
                  card_sets |-> << P(R_GhostRare, "DCR-017"), P(R_UltraRare, "DCR-018") >>]
      CurtainTwice == [name |-> N_DarkMagicCurtain,
                       card_sets |-> << P(R_GhostRare, "DCR-017"), P(R_GhostRare, "DCR-017") >>]
      MagicianTwice == [name |-> N_DarkMagician,
                        card_sets |-> << P(R_UltraRare, "LOB-005"), P(R_UltraRare, "LOB-005") >>]
      MagicianTies == [name |-> N_DarkMagician,
                       card_sets |-> << P(R_GhostRare, "SDY-006"), P(R_GhostRare, "GLD-005"),
                                        P(R_SecretRare, "PGD-000") >>]
      MagicianNine == [name |-> N_DarkMagician,
                       card_sets |-> << P(R_UltraRare, "LOB-005"), P(R_UltraRare, "SDY-006"),
                                        P(R_UltraRare, "SYE-001"), P(R_GhostRare, "GLD-005"),
                                        P(R_GhostRare, "LCYW-01"), P(R_SecretRare, "PGD-000"),
                                        P(R_SecretRare, "MVP1-54"), P(R_UltraRare, "DPYG-01"),
                                        P(R_UltraRare, "YGLD-B2") >>]
  IN  { set_cards,
        set_cards \o <<Curtain>>,
        <<BlueEyes, BlueEyes>> \o <<set_cards[2]>>,
        <<MagicianTwice, CurtainTwice>>,
        <<MagicianTies>>,
        <<MagicianNine, Curtain, BlueEyes>> }

\* the arguments card_name and rarity of a call
RankingQueries ==
  {T_dragon, T_blue_eyes, n_dark_magician, T_cancel} \X {None, T_ghost_rare, T_ultra_rare}

\* the values of the threshold box: its range, and a value typed above it
RankingThresholds == {80, 85, 86, 95, 96}

InitRanking ==
  /\ pack_session_active = TRUE
  /\ voice_listening = TRUE
  /\ pending_voice_confirmation = FALSE
  /\ pending_card_options = <<>>
  /\ pending_voice_data = NoData
  /\ options_round = 0
  /\ auto_confirm_var \in BOOLEAN
  /\ auto_confirm_threshold_var \in RankingThresholds
  /\ cards = <<>>
  /\ loops = [t \in 1..MaxLoops |-> NoLoop]
  /\ dialogs = <<>>
  /\ grab = 0
  /\ audio_lock = "free"
  /\ queue = <<>>
  /\ main = "idle"
  /\ voice_status_var = Status("ready", 0)
  /\ heard = 0
  /\ rounds = 0
  /\ \E catalog \in RankingCatalogs, q \in RankingQueries :
       call = [NoCall EXCEPT !.fn = "find_and_present_card_options",
                             !.pc = "first_pass",
                             !.catalog = catalog,
                             !.card_name = q[1],
                             !.rarity = q[2]]

\* The fault: the top variant is committed whenever the box is ticked.
RankDecide_ignores_threshold ==
  /\ call.fn = "find_and_present_card_options"
  /\ call.pc = "returned"
  /\ call.result # <<>>
  /\ call' = [call EXCEPT !.pc = IF auto_confirm_var THEN "auto_confirm"
                                 ELSE "show_voice_card_options"]
  /\ UNCHANGED progVars

\* the auto-confirm decision on final_variants[0]
RankDecide ==
  /\ call.fn = "find_and_present_card_options"
  /\ call.pc = "returned"
  /\ call.result # <<>>
  /\ call' = [call EXCEPT !.pc =
                IF /\ auto_confirm_var
                   /\ call.result[1].confidence >= auto_confirm_threshold_var * Scale
                THEN "auto_confirm" ELSE "show_voice_card_options"]
  /\ UNCHANGED progVars

NextRanking == RankFirstPass \/ RankExpansion \/ RankDecide

SpecRanking == InitRanking /\ [][NextRanking]_vars
(***************************************************************************)
(* Steps of the handlers, told by what they do to the state                *)
(***************************************************************************)
\* the main thread runs the handle_voice_selection callback at the head of the queue
HvsStep ==
  /\ main = "idle"
  /\ queue # <<>>
  /\ Head(queue).pc = "hvs"
  /\ queue' # queue
  /\ Len(queue') <= Len(queue)

\* the text of that callback and the number read from it
HvsText == Head(queue).text

HvsNumber == MatchNumber(Head(queue).text)

\* ... with a number K, 1 <= K <= N
HvsOrdinalStep ==
  /\ HvsStep
  /\ HvsNumber.found
  /\ 1 <= HvsNumber.value
  /\ HvsNumber.value <= Len(pending_card_options)

\* ... with a number outside 1..N
HvsOutOfRangeStep ==
  /\ HvsStep
  /\ HvsNumber.found
  /\ ~(1 <= HvsNumber.value /\ HvsNumber.value <= Len(pending_card_options))

\* ... with no number and a word of the cancel vocabulary
HvsCancelStep == HvsStep /\ ~HvsNumber.found /\ MatchesReject(HvsText)

\* ... with neither
HvsUnrelatedStep == HvsStep /\ ~HvsNumber.found /\ ~MatchesReject(HvsText)

\* the main thread runs the auto-confirm callback at the head of the queue
AddStep ==
  /\ main = "idle"
  /\ queue # <<>>
  /\ Head(queue).pc = "add"
  /\ queue' = Tail(queue)

\* the main thread runs the status callback at the head of the queue
StatusStep ==
  /\ main = "idle"
  /\ queue # <<>>
  /\ Head(queue).pc = "status"
  /\ queue' = Tail(queue)

\* a click on "Select Option" of an open dialog
SelectStep == main = "idle" /\ main' = "sel_clear"

\* the Cancel button or the close box of an open dialog
CancelStep ==
  /\ main = "idle"
  /\ main' = "idle"
  /\ \E d \in 1..Len(dialogs) :
       dialogs[d].open /\ dialogs' = Gc([dialogs EXCEPT ![d].open = FALSE])

\* show_voice_card_options fails while it builds the dialog
DialogFailsStep ==
  \E t \in 1..MaxLoops :
    loops[t].pc = "dialog" /\ loops'[t].pc = "while" /\ dialogs' = dialogs

\* thread t leaves the statement at pc
LoopStep(t, pc) == loops[t].pc = pc /\ loops'[t] # loops[t]

\* the session entry of a committed option
Committed(opt, art_variant, round) ==
  [card_name |-> opt.name, card_rarity |-> opt.rarity, art_variant |-> art_variant,
   card_sets |-> opt.card_data.card_sets, round |-> round]

\* the cards a selection round has committed
CommitsOf(r) == {i \in 1..Len(cards) : cards[i].round = r}

OpenDialogs == {d \in 1..Len(dialogs) : dialogs[d].open}

(***************************************************************************)
(* C1                                                                      *)
(***************************************************************************)
\* C1: when process_voice_input takes up an utterance while a selection is
\* pending, the utterance goes to handle_voice_selection and nowhere else: the
\* thread returns to its loop without parsing or scoring, and nothing of the
\* pending selection, the session or the dialogs changes.  Running
\* handle_voice_selection starts no scoring and creates no candidates either.
C1_PendingRoutesToSelection ==
  [][/\ \A t \in 1..MaxLoops :
          (LoopStep(t, "process") /\ pending_voice_confirmation)
            => /\ queue' = Append(queue, CbHvs(Strip(Lower(loops[t].text)), "loop"))
               /\ loops'[t] = LoopAt("while")
               /\ UNCHANGED <<psVars, cards, dialogs, rounds>>
     /\ HvsStep => UNCHANGED <<loops, dialogs, rounds>>]_vars

\* an utterance taken up while a selection was pending waits for
\* handle_voice_selection
C1_Witness ==
  /\ pending_voice_confirmation
  /\ \E i \in 1..Len(queue) : queue[i].pc = "hvs" /\ queue[i].kind = "loop"

(***************************************************************************)
(* C2                                                                      *)
(***************************************************************************)
\* C2: at most one pending selection exists: show_voice_card_options is not
\* entered while pending_voice_confirmation is true, a stored option list is
\* not overwritten, and two option dialogs are never open together.
C2_AtMostOnePendingSelection ==
  /\ \A t \in 1..MaxLoops : loops[t].pc = "set_flag" => ~pending_voice_confirmation
  /\ \A t \in 1..MaxLoops : loops[t].pc = "set_data" => pending_card_options = <<>>
  /\ Cardinality(OpenDialogs) <= 1

(***************************************************************************)
(* C3                                                                      *)
(***************************************************************************)
\* C3: a pending selection is committed at most once, whether the voice answer
\* or the click comes first.
C3_AtMostOneCommit == \A r \in 1..rounds : Cardinality(CommitsOf(r)) <= 1

(***************************************************************************)
(* C4                                                                      *)
(***************************************************************************)
\* C4 as stated: the flag of a pending selection is cleared only by an ordinal
\* in range, by the cancel vocabulary or by a selection, a cancel or a close
\* of the dialog.
C4_OnlyAnswerOrDismissal ==
  [][(pending_voice_confirmation /\ ~pending_voice_confirmation')
       => HvsOrdinalStep \/ HvsCancelStep \/ SelectStep \/ CancelStep]_vars

\* C4, amended: the flag and the option list of a pending selection are cleared
\* only by an ordinal in range, by the cancel vocabulary, by a selection, a
\* cancel or a close of the dialog, or by show_voice_card_options itself when
\* building the dialog fails; the hints are cleared only by those steps (a
\* selection clears them with its last statement); an utterance that is neither
\* an ordinal nor cancel vocabulary changes none of the three.
C4_ClearedOnlyByResolution ==
  [][/\ (\/ pending_voice_confirmation /\ ~pending_voice_confirmation'
         \/ pending_card_options # <<>> /\ pending_card_options' = <<>>)
          => \/ HvsOrdinalStep
             \/ HvsCancelStep
             \/ SelectStep
             \/ CancelStep
             \/ DialogFailsStep
     /\ (pending_voice_data # NoData /\ pending_voice_data' = NoData)
          => \/ HvsCancelStep
             \/ CancelStep
             \/ DialogFailsStep
             \/ main \in {"hvs_clear", "sel_clear"}
     /\ HvsUnrelatedStep => UNCHANGED psVars]_vars

\* a selection was created and is cleared again, no card committed
C4_Witness ==
  /\ rounds = 1
  /\ heard = 1
  /\ ~pending_voice_confirmation
  /\ pending_card_options = <<>>
  /\ pending_voice_data = NoData
  /\ cards = <<>>
  /\ \A t \in 1..MaxLoops : loops[t].pc \in {"none", "while", "listening"}

(***************************************************************************)
(* C5                                                                      *)
(***************************************************************************)
\* C5: when the ranked list of an utterance is not empty, the decision is: with
\* auto-confirm enabled and the top confidence >= the threshold, the top
\* candidate is handed to the main thread, which commits it, and the pending
\* selection is not touched; otherwise nothing is committed or scheduled and
\* show_voice_card_options is entered and stores the whole ranked list.
C5_AutoConfirmOrPending ==
  [][/\ \A t \in 1..MaxLoops :
          (LoopStep(t, "score") /\ Ranked[<<loops[t].card_name, loops[t].rarity>>] # <<>>)
            => LET final_variants == Ranked[<<loops[t].card_name, loops[t].rarity>>]
               IN IF /\ auto_confirm_var
                     /\ final_variants[1].confidence >= auto_confirm_threshold_var * Scale
                  THEN /\ queue' = Append(queue, CbAdd(final_variants[1], loops[t].art_variant))
                       /\ loops'[t].pc = "while"
                       /\ UNCHANGED <<psVars, cards, rounds, dialogs>>
                  ELSE /\ loops'[t].pc = "set_flag"
                       /\ loops'[t].variants = final_variants
                       /\ UNCHANGED <<queue, cards>>
     /\ \A t \in 1..MaxLoops :
          /\ LoopStep(t, "set_flag") => pending_voice_confirmation'
          /\ LoopStep(t, "set_data") => pending_card_options' = loops[t].variants
     /\ AddStep
          => /\ cards' = Append(cards, Committed(Head(queue).opt[1], Head(queue).art, 0))
             /\ UNCHANGED psVars]_vars

\* the top candidate was committed by auto-confirm and no selection was ever
\* created
C5_Witness ==
  /\ auto_confirm_var
  /\ rounds = 0
  /\ ~pending_voice_confirmation
  /\ Len(cards) = 1
  /\ cards[1].round = 0
  /\ cards[1].card_name = N_BlueEyes

(***************************************************************************)
(* C6                                                                      *)
(***************************************************************************)
\* C6: with the auto-confirm box not ticked the decision schedules no commit,
\* whatever the confidence and the threshold; and the session's card list
\* grows only by an ordinal answer, by a click on an option or by a commit that
\* an auto-confirm decision has scheduled.
C6_NoCommitWithoutAutoConfirm ==
  [][/\ \A t \in 1..MaxLoops :
          (LoopStep(t, "score") /\ ~auto_confirm_var)
            => /\ cards' = cards
               /\ \/ queue' = queue
                  \/ /\ Len(queue') = Len(queue) + 1
                     /\ SubSeq(queue', 1, Len(queue)) = queue
                     /\ queue'[Len(queue')].pc = "status"
     /\ cards' # cards => HvsOrdinalStep \/ SelectStep \/ AddStep]_vars

\* a top candidate above the threshold waits for an answer because the box is
\* not ticked
C6_Witness ==
  /\ ~auto_confirm_var
  /\ pending_voice_confirmation
  /\ pending_card_options # <<>>
  /\ pending_card_options[1].confidence >= auto_confirm_threshold_var * Scale
  /\ cards = <<>>
  /\ queue = <<>>

(***************************************************************************)
(* C7                                                                      *)
(***************************************************************************)
\* C7: with N options pending, an utterance read as the number K, 1 <= K <= N,
\* commits the K-th option of the list (index K-1) with the rarity of that
\* option, clears the flag and the option list, and the handler's last
\* statement clears the hints.
C7_OrdinalCommitsOption ==
  [][/\ (HvsOrdinalStep /\ pending_voice_confirmation)
          => /\ cards' = Append(cards, Committed(pending_card_options[HvsNumber.value],
                                                 pending_voice_data.art_variant,
                                                 options_round))
             /\ ~pending_voice_confirmation'
             /\ pending_card_options' = <<>>
             /\ main' = "hvs_clear"
     /\ (main = "hvs_clear" /\ main' # main)
          => /\ pending_voice_data' = NoData
             /\ main' = "idle"
             /\ cards' = cards]_vars

\* "option 2" has committed the second option, an Ultra Rare, of a list asked
\* for with the hint "ghost rare"
C7_Witness ==
  /\ main = "hvs_clear"
  /\ pending_voice_data.rarity = T_ghost_rare
  /\ ~pending_voice_confirmation
  /\ pending_card_options = <<>>
  /\ Len(cards) = 1
  /\ cards[1].card_rarity = R_UltraRare
  /\ cards[1].round = 1

(***************************************************************************)
(* C8                                                                      *)
(***************************************************************************)
\* C8: with N options pending, an utterance read as a number outside 1..N
\* commits nothing, leaves flag, options and hints as they are, and the
\* invalid-selection status it causes names the range 1..N.
C8_OutOfRangeKeepsSelection ==
  [][/\ (HvsOutOfRangeStep /\ pending_voice_confirmation)
          => /\ UNCHANGED <<psVars, cards>>
             /\ queue' = Append(Tail(queue), CbStatus("invalid", Len(pending_card_options)))
     /\ (StatusStep /\ Head(queue).kind = "invalid" /\ Head(queue).n >= 1)
          => voice_status_var' = Status("invalid", Head(queue).n)]_vars

(***************************************************************************)
(* C9                                                                      *)
(***************************************************************************)
\* C9: while a selection is pending, an utterance without a number that holds a
\* word of the cancel vocabulary clears flag, options and hints, commits
\* nothing and schedules no commit.
C9_CancelClears ==
  [][(HvsCancelStep /\ pending_voice_confirmation)
       => /\ ~pending_voice_confirmation'
          /\ pending_card_options' = <<>>
          /\ pending_voice_data' = NoData
          /\ cards' = cards
          /\ queue' = Tail(queue)
          /\ main' = "idle"]_vars

\* "cancel" has cleared the only selection there was: its dialog is still open,
\* nothing is pending, nothing was committed
C9_Witness ==
  /\ rounds = 1
  /\ heard = 2
  /\ Len(dialogs) = 1
  /\ dialogs[1].open
  /\ ~pending_voice_confirmation
  /\ pending_card_options = <<>>
  /\ pending_voice_data = NoData
  /\ cards = <<>>
  /\ main = "idle"
  /\ queue = <<>>

RoundOpen(ds, r) == \E d \in 1..Len(ds) : ds[d].round = r /\ ds[d].open

\* C11: from a state where the pending selection has its dialog on the screen,
\* the voice ordinal K ends in the state a click on option K ends in: the K-th
\* option is committed with the dialog's art variant, flag and options are
\* cleared and the dialog is gone; the voice cancel ends in the state the Cancel
\* button ends in: nothing committed, flag, options and hints cleared and the
\* dialog gone.
C11_VoiceAndClickAgree ==
  [][\A d \in 1..Len(dialogs) :
       (/\ pending_voice_confirmation
        /\ dialogs[d].open
        /\ dialogs[d].round = options_round
        /\ dialogs[d].card_matches = pending_card_options)
         => /\ HvsOrdinalStep
                 => /\ cards' = Append(cards, Committed(dialogs[d].card_matches[HvsNumber.value],
                                                        dialogs[d].art_variant,
                                                        dialogs[d].round))
                    /\ ~pending_voice_confirmation'
                    /\ pending_card_options' = <<>>
                    /\ ~RoundOpen(dialogs', dialogs[d].round)
            /\ HvsCancelStep
                 => /\ cards' = cards
                    /\ ~pending_voice_confirmation'
                    /\ pending_card_options' = <<>>
                    /\ pending_voice_data' = NoData
                    /\ ~RoundOpen(dialogs', dialogs[d].round)]_vars

(***************************************************************************)
(* C12                                                                     *)
(***************************************************************************)
\* C12: every card of the session belongs to a card of the catalog, and its
\* rarity label is the set_rarity of one of the printings (card_sets) of that
\* card, whether auto-confirm, a voice ordinal or a click committed it.
C12_CommittedRarityIsPrinted ==
  \A i \in 1..Len(cards) :
    /\ \E k \in 1..Len(set_cards) :
         /\ set_cards[k].name = cards[i].card_name
         /\ set_cards[k].card_sets = cards[i].card_sets
    /\ \E j \in 1..Len(cards[i].card_sets) :
         cards[i].card_sets[j].set_rarity = cards[i].card_rarity

\* auto-confirm has committed one card and a selection another, a Ghost Rare,
\* which is not the first printing of its card
C12_Witness ==
  /\ Len(cards) = 2
  /\ cards[1].round = 0
  /\ cards[2].round >= 1
  /\ cards[2].card_rarity = R_GhostRare
  /\ cards[2].card_sets[1].set_rarity # R_GhostRare

(***************************************************************************)
(* C13                                                                     *)
(***************************************************************************)
\* fetch_price_and_update: the card number the price request of a session
\* entry is made with
card_number(session_card) ==
  IF session_card.card_sets # <<>> THEN session_card.card_sets[1].set_code ELSE ""

\* C13: the set code that goes with a committed card is the set code of the
\* option that was chosen: of the top candidate on auto-confirm, of the K-th
\* pending option on the voice ordinal K, of the clicked option of the dialog.
C13_CommitCarriesSetCode ==
  [][/\ AddStep
          => /\ cards' = Append(cards, Committed(Head(queue).opt[1], Head(queue).art, 0))
             /\ card_number(cards'[Len(cards')]) = Head(queue).opt[1].set_code
     /\ (HvsOrdinalStep /\ pending_voice_confirmation)
          => /\ cards' = Append(cards, Committed(pending_card_options[HvsNumber.value],
                                                 pending_voice_data.art_variant,
                                                 options_round))
             /\ card_number(cards'[Len(cards')])
                  = pending_card_options[HvsNumber.value].set_code
     /\ SelectStep
          => \E d \in 1..Len(dialogs) : \E index \in 0..(Len(dialogs[d].card_matches) - 1) :
               /\ dialogs[d].open
               /\ cards' = Append(cards, Committed(dialogs[d].card_matches[index + 1],
                                                   dialogs[d].art_variant, dialogs[d].round))
               /\ card_number(cards'[Len(cards')])
                    = dialogs[d].card_matches[index + 1].set_code]_vars

(***************************************************************************)
(* C14                                                                     *)
(***************************************************************************)
\* C14: ensure_unique_confidence_scores, called with a list sorted by
\* confidence, highest first, returns the same variants in the same order,
\* with confidences that are pairwise distinct and still fall with the
\* position in the list.
C14_UniqueKeepsRank ==
  (call.fn = "ensure_unique_confidence_scores" /\ call.pc = "returned")
    => /\ Len(call.result) = Len(call.variants)
       /\ \A i \in 1..Len(call.result) : call.result[i].name = call.variants[i].name
       /\ \A i, j \in 1..Len(call.result) :
            i # j => call.result[i].confidence # call.result[j].confidence
       /\ \A i, j \in 1..Len(call.result) :
            i < j => call.result[i].confidence >= call.result[j].confidence

(***************************************************************************)
(* C15                                                                     *)
(***************************************************************************)
\* the threads inside the microphone section of listen_once
InMicrophone ==
  {<<"loop", t>> : t \in {u \in 1..MaxLoops : loops[u].pc = "listening"}}
    \cup {<<"dialog", dialogs[d].round>> :
            d \in {e \in 1..Len(dialogs) : dialogs[e].pc = "listening"}}

\* C15: at most one thread is inside the microphone section of listen_once and
\* it holds the audio lock; a thread enters only by taking the free lock; a
\* dialog listener that finds the lock taken gets no utterance, counts the
\* attempt and goes on; and a thread that leaves the section, with a text or
\* with nothing, leaves the lock free.
C15_MicrophoneExclusive ==
  [][/\ IF audio_lock' = "free" THEN InMicrophone' = {} ELSE InMicrophone' = {audio_lock'}
     /\ Cardinality(InMicrophone') <= 1
     /\ (audio_lock = "free" /\ audio_lock' # "free")
          => audio_lock' \in InMicrophone' \ InMicrophone
     /\ (audio_lock # "free" /\ audio_lock \notin InMicrophone')
          => audio_lock' = "free"
     /\ (audio_lock # "free" /\ audio_lock' # "free") => audio_lock' = audio_lock
     /\ \A t \in 1..MaxLoops :
          (loops[t].pc = "while" /\ audio_lock # "free") => loops'[t].pc \in {"while", "none"}
     /\ \A d \in 1..Len(dialogs) :
          (/\ dialogs[d].pc = "while"
           /\ audio_lock # "free"
           /\ audio_lock' # "free"
           /\ Len(dialogs') = Len(dialogs)
           /\ dialogs'[d].listen_count # dialogs[d].listen_count)
            => /\ dialogs' = [dialogs EXCEPT ![d].listen_count = @ + 1]
               /\ UNCHANGED <<queue, heard, psVars, cards>>]_vars

\* a loop thread is inside the microphone section while the listener of the
\* pending selection's dialog, which has had one attempt without result, is
\* about to try
C15_Witness ==
  /\ audio_lock \in {<<"loop", t>> : t \in 1..MaxLoops}
  /\ pending_voice_confirmation
  /\ \E d \in 1..Len(dialogs) :
       /\ dialogs[d].pc = "while"
       /\ dialogs[d].listen_count = 1

(***************************************************************************)
(* C16                                                                     *)
(***************************************************************************)
\* C16: stop_voice_listening changes nothing of a pending selection, of the
\* session, of the dialogs or of the scheduled callbacks, nor does the exit of
\* a listen loop; with the listening stopped, a click on an option of a dialog
\* still commits that option, clears flag and options, and its last statement
\* clears the hints.
C16_StopKeepsSelection ==
  [][/\ (voice_listening /\ ~voice_listening')
          => UNCHANGED <<psVars, cards, dialogs, queue, loops>>
     /\ \A t \in 1..MaxLoops :
          (loops[t].pc = "while" /\ loops'[t].pc = "none")
            => UNCHANGED <<psVars, cards, dialogs, queue>>
     /\ (SelectStep /\ ~voice_listening)
          => /\ \E d \in 1..Len(dialogs) :
                  \E index \in 0..(Len(dialogs[d].card_matches) - 1) :
                    /\ dialogs[d].open
                    /\ dialogs' = Gc([dialogs EXCEPT ![d].open = FALSE])
                    /\ cards' = Append(cards, Committed(dialogs[d].card_matches[index + 1],
                                                        dialogs[d].art_variant,
                                                        dialogs[d].round))
             /\ ~pending_voice_confirmation'
             /\ pending_card_options' = <<>>
     /\ (main = "sel_clear" /\ main' # main)
          => /\ pending_voice_data' = NoData
             /\ main' = "idle"
             /\ UNCHANGED <<pending_voice_confirmation, pending_card_options, cards>>]_vars

\* the listening is stopped and every listen loop has ended; the selection is
\* pending with its options and hints, and its dialog is on the screen
C16_Witness ==
  /\ ~voice_listening
  /\ \A t \in 1..MaxLoops : loops[t].pc = "none"
  /\ pending_voice_confirmation
  /\ pending_card_options # <<>>
  /\ pending_voice_data # NoData
  /\ RoundOpen(dialogs, options_round)

(***************************************************************************)
(* C17                                                                     *)
(***************************************************************************)
\* the listener of the dialog of round r is in its loop
Listening(ds, r) ==
  \E e \in 1..Len(ds) : ds[e].round = r /\ ds[e].pc \in {"while", "listening"}

\* C17: a listen attempt that times out while a selection is pending hands no
\* utterance to anybody and leaves flag, options, hints and session alone, and
\* the listener goes back to its loop; the listener of a dialog leaves its
\* loop only when it has handed over an utterance or when no selection is
\* pending any more, however many of its attempts have timed out.
C17_TimeoutsKeepListening ==
  [][\A d \in 1..Len(dialogs) :
       /\ (/\ dialogs[d].pc = "listening"
           /\ audio_lock' = "free"
           /\ heard' = heard
           /\ pending_voice_confirmation)
            => /\ UNCHANGED <<psVars, cards, queue>>
               /\ Listening(dialogs', dialogs[d].round)
       /\ (Listening(dialogs, dialogs[d].round) /\ ~Listening(dialogs', dialogs[d].round))
            => \/ ~pending_voice_confirmation
               \/ /\ Len(queue') = Len(queue) + 1
                  /\ queue'[Len(queue')].pc = "hvs"]_vars

(***************************************************************************)
(* C18                                                                     *)
(***************************************************************************)
\* C18: when handle_voice_selection has turned down a number outside 1..N and
\* the selection is still pending, the next answer is listened for: a thread
\* that hands what it hears to handle_voice_selection is still running: the
\* listener of a dialog, a loop thread that has entered listen_once, or a loop
\* thread that is about to open a dialog with a listener of its own.
C18_RetryIsListenedFor ==
  [][(HvsOutOfRangeStep /\ pending_voice_confirmation)
       => \/ \E d \in 1..Len(dialogs') : dialogs'[d].pc \in {"while", "listening"}
          \/ \E t \in 1..MaxLoops :
               loops'[t].pc \in {"listening", "process", "set_flag", "set_data", "dialog"}]_vars

(***************************************************************************)
(* C19                                                                     *)
(***************************************************************************)
\* the names of the rows of card_matches
MatchedNames(card_matches) == {card_matches[i].name : i \in 1..Len(card_matches)}

\* name, printing and confidence of the variants of a list, in order
Offered(variants) ==
  [i \in 1..Len(variants) |->
     <<variants[i].name, variants[i].rarity, variants[i].set_code, variants[i].confidence>>]

\* C19: for a catalog that holds an entry without 'name' or without
\* 'card_sets', the ranking pass is not aborted: its first pass finds the cards
\* it finds without that entry, and it ends with the variants, in the order and
\* with the confidences, that it ends with without that entry.
C19_MalformedEntrySkipped ==
  call.fn = "find_and_present_card_options"
    => /\ call.pc # "raised"
       /\ call.pc \in {"expansion", "returned"}
            => MatchedNames(call.card_matches)
                 = MatchedNames(FirstPassOver(WellFormed(call.catalog), call.card_name,
                                              call.rarity, 1, <<>>))
       /\ call.pc = "returned"
            => Offered(call.result)
                 = Offered(FinalVariantsOver(WellFormed(call.catalog), call.card_name,
                                             call.rarity,
                                             FirstPassOver(WellFormed(call.catalog),
                                                           call.card_name, call.rarity,
                                                           1, <<>>)))

C21_PendingSelectionConsistent ==
  /\ pending_voice_confirmation <=> pending_card_options # <<>>
  /\ pending_card_options # <<>>
       => /\ pending_voice_data.set
          /\ <<pending_voice_data.original_input, pending_voice_data.rarity>> \in Queries
          /\ pending_card_options
               = Ranked[<<pending_voice_data.original_input, pending_voice_data.rarity>>]

(***************************************************************************)
(* C22                                                                     *)
(***************************************************************************)
\* C22: an utterance is routed by the state at the time it is processed: it is
\* handed to handle_voice_selection only while a selection is pending, and an
\* utterance that a loop thread takes up while none is pending is parsed as a
\* new query.
C22_RoutedByCurrentState ==
  [][/\ (Len(queue') = Len(queue) + 1 /\ queue'[Len(queue')].pc = "hvs")
          => pending_voice_confirmation
     /\ \A t \in 1..MaxLoops :
          (LoopStep(t, "process") /\ ~pending_voice_confirmation)
            => loops'[t].pc = "score" /\ queue' = queue]_vars

(***************************************************************************)
(* C23                                                                     *)
(***************************************************************************)
\* the loop threads that are processing an utterance: between the return of
\* listen_once with a text and the return of process_voice_input
Processing ==
  {t \in 1..MaxLoops : loops[t].pc \in {"process", "score", "set_flag", "set_data", "dialog"}}

\* C23: utterances are processed one at a time: no utterance is being
\* processed while the processing of another one is under way.
C23_OneUtteranceAtATime == Cardinality(Processing) <= 1

(***************************************************************************)
(* C24                                                                     *)
(***************************************************************************)
\* the ranking pass of the call has come to final_variants[:8]
Ranked8 ==
  /\ call.fn = "find_and_present_card_options"
  /\ call.pc \in {"returned", "auto_confirm", "show_voice_card_options"}
  /\ call.result # <<>>

\* every variant the expansion of the call produces, before sort, tie-breaking
\* and cut
AllVariants ==
  Combine(ExpandOver(call.catalog, call.card_name, call.rarity, call.card_matches, 1,
                     [prio |-> <<>>, rest |-> <<>>]))

\* the confidence the expansion gives a variant of the list
RawConfidence(v) ==
  VariantConfidence(call.card_name, call.rarity, v.card_data,
                    [set_rarity |-> v.rarity, set_code |-> v.set_code])

\* a hint was spoken and the rarity of the variant is that hint
ExactRarity(v) ==
  call.rarity # None /\ Strip(Lower(call.rarity)) = Strip(Lower(v.rarity))

\* 95 at most, 85 at most without an exact match of the hint
WithinCaps(v) ==
  /\ v.confidence <= CapExactRarity * Scale
  /\ ~ExactRarity(v) => v.confidence <= CapOther * Scale

\* C24: every variant the expansion produces has a confidence of 95 at most,
\* and of 85 at most unless a hint was spoken and the rarity of the variant
\* equals it; the same holds for the confidences of the list after the
\* tie-breaking.
C24_ConfidenceCaps ==
  Ranked8 => /\ \A i \in 1..Len(AllVariants) : WithinCaps(AllVariants[i])
             /\ \A i \in 1..Len(call.result) : WithinCaps(call.result[i])

\* both caps have cut a confidence, and the tie-breaking has moved a capped one
C24_Witness ==
  /\ Ranked8
  /\ \E i, j, k \in 1..Len(call.result) :
       /\ ExactRarity(call.result[i])
       /\ call.result[i].confidence = CapExactRarity * Scale
       /\ ~ExactRarity(call.result[j])
       /\ call.result[j].confidence = CapOther * Scale
       /\ ~ExactRarity(call.result[k])
       /\ RawConfidence(call.result[k]) = CapOther * Scale
       /\ call.result[k].confidence < CapOther * Scale

(***************************************************************************)
(* C25                                                                     *)
(***************************************************************************)
\* C25: the list that is offered never holds two entries with the same card
\* name, rarity and set code, whether the card is a priority match or not,
\* also when the catalog lists a printing more than once.
C25_NoDuplicateOffers ==
  Ranked8 =>
    \A i, j \in 1..Len(call.result) :
      /\ call.result[i].name = call.result[j].name
      /\ call.result[i].rarity = call.result[j].rarity
      /\ call.result[i].set_code = call.result[j].set_code
      => i = j

(***************************************************************************)
(* C26                                                                     *)
(***************************************************************************)
\* C26: the list that is offered has between 1 and 8 entries, its confidences
\* descend, and no variant of the expansion that was left out has a higher
\* confidence than one that was taken.
C26_TopEightDescending ==
  Ranked8 =>
    /\ Len(call.result) \in 1..MaxVariants
    /\ Len(call.result) = Min(MaxVariants, Len(AllVariants))
    /\ \A i, j \in 1..Len(call.result) :
         i < j => call.result[i].confidence >= call.result[j].confidence
    /\ \A k \in 1..Len(AllVariants) :
         (\A i \in 1..Len(call.result) : call.result[i].variant_key # AllVariants[k].variant_key)
         => \A i \in 1..Len(call.result) :
              RawConfidence(call.result[i]) >= AllVariants[k].confidence

(***************************************************************************)
(* C27                                                                     *)
(***************************************************************************)
\* C27: in the list that is offered a priority variant stands before every
\* non-priority variant whose confidence from the expansion is equal to or
\* lower than its own; a tie between the two is never won by the
\* non-priority variant.
C27_PriorityWinsTies ==
  Ranked8 =>
    \A i, j \in 1..Len(call.result) :
      /\ call.result[i].is_priority
      /\ ~call.result[j].is_priority
      /\ RawConfidence(call.result[j]) <= RawConfidence(call.result[i])
      => i < j

\* a priority and a non-priority variant left the expansion with the same
\* confidence, and both are offered
C27_Witness ==
  /\ Ranked8
  /\ \E i, j \in 1..Len(call.result) :
       /\ call.result[i].is_priority
       /\ ~call.result[j].is_priority
       /\ RawConfidence(call.result[j]) = RawConfidence(call.result[i])
       /\ i < j

(***************************************************************************)
(* C28                                                                     *)
(***************************************************************************)
\* C28: no card whose name score is below 40 is among the matched cards or
\* among the variants that are offered (one of which is the variant that is
\* committed), whatever its rarity score.
C28_WeakNameNeverOffered ==
  Ranked8 =>
    /\ \A i \in 1..Len(call.card_matches) :
         calculate_name_confidence(call.card_name, call.card_matches[i].name)
           >= MinNameScore * Scale
    /\ \A i \in 1..Len(call.result) :
         calculate_name_confidence(call.card_name, call.result[i].name)
           >= MinNameScore * Scale

\* a card of the catalog has a name score below 40 and a printing in exactly
\* the spoken rarity, which would lift 75% name + 25% rarity to 50 or more,
\* and other cards are offered
C28_Witness ==
  /\ Ranked8
  /\ call.rarity # None
  /\ \E k \in 1..Len(call.catalog) :
       /\ calculate_name_confidence(call.card_name, call.catalog[k].name)
            < MinNameScore * Scale
       /\ (3 * calculate_name_confidence(call.card_name, call.catalog[k].name)
             + 100 * Scale) \div 4 >= MinTotalScore * Scale
       /\ \E j \in 1..Len(call.catalog[k].card_sets) :
            Strip(Lower(call.catalog[k].card_sets[j].set_rarity)) = Strip(Lower(call.rarity))
       /\ \A i \in 1..Len(call.result) : call.result[i].name # call.catalog[k].name

(***************************************************************************)
(* C29                                                                     *)
(***************************************************************************)
\* C29: whatever the sequence of start_voice_listening, stop_voice_listening
\* and toggle_voice_listening, at most one voice_recognition_loop thread is
\* running.
C29_OneLoopThread ==
  Cardinality({t \in 1..MaxLoops : loops[t].pc # "none"}) <= 1

(***************************************************************************)
(* C30                                                                     *)
(***************************************************************************)
\* C30: without a rarity hint the confidence of the top candidate is 85 at
\* most; a hint-less utterance is auto-confirmed only with the box ticked and
\* a threshold of 85 or less, and with candidates and a threshold above 85 it
\* goes to show_voice_card_options; with a threshold above 95 nothing is
\* auto-confirmed.
C30_ThresholdAboveCapNeverConfirms ==
  /\ (Ranked8 /\ call.rarity = None) => call.result[1].confidence <= CapOther * Scale
  /\ Ranked8 => call.result[1].confidence <= CapExactRarity * Scale
  /\ (Ranked8 /\ call.pc = "auto_confirm") =>
       /\ auto_confirm_var
       /\ auto_confirm_threshold_var <= CapExactRarity
       /\ call.rarity = None => auto_confirm_threshold_var <= CapOther
  /\ (Ranked8 /\ call.pc # "returned" /\ call.rarity = None
        /\ auto_confirm_threshold_var > CapOther) => call.pc = "show_voice_card_options"

\* a hint-less utterance whose top candidate is at the cap is auto-confirmed
\* with the threshold at the cap
C30_Witness ==
  /\ Ranked8
  /\ call.rarity = None
  /\ call.result[1].confidence = CapOther * Scale
  /\ auto_confirm_threshold_var = CapOther
  /\ call.pc = "auto_confirm"

====
